---- MODULE Spec2Model ----
(***************************************************************************)
(* Model of filament's reference-counted cache (filament/src/Cache.h):     *)
(* Cache<Key, T, Hash>, its Impl (the map of entries) and its Handle.      *)
(*                                                                         *)
(* One cache instance is modelled.  Handle objects live in a fixed pool of *)
(* slots; a slot either holds no object or holds a Handle with the fields  *)
(* mImpl, mKey and mHash.  FILAMENT_CHECK_PRECONDITION failures end the    *)
(* process (the functions are noexcept): they are recorded in `panic` and  *)
(* no operation runs afterwards.                                           *)
(***************************************************************************)
EXTENDS Integers, FiniteSets, Sequences, TLC

\* ---------------------------------------------------------------- bounds
NumKeys == 2          \* distinct keys offered to get
MaxHandles == 2       \* Handle objects that can exist at the same time
MaxOutstanding == 2  \* handles acquired and not yet released, all keys
HashRange == 2        \* number of distinct hash values
MaxSpecs == 1         \* Specialization objects the clients hold
MaxProgramRefs == 2   \* cap on the referenceCount of a program entry

Keys == 1..NumKeys
Slots == 1..MaxHandles

\* ------------------------------------------------------------ data model
\* Impl* values held by a Handle: nullptr or the one Impl of the cache.
NULL == "nullptr"
IMPL == "impl"

\* Hash{}(key): a deterministic function of the key that may collide.
Hash(key) == key % HashRange

\* The values a factory can build, and std::nullopt.
Values == {"v1", "v2"}
NoValue == "nullopt"

\* Absence of a key in mMap (find() == end()).
NoEntry == [referenceCount |-> 0, value |-> NoValue, present |-> FALSE]

\* struct Entry { uint32_t referenceCount; T value; }.  referenceCount is a
\* uint32_t; MaxOutstanding keeps it far below the point where ++ wraps.
Entry(rc, v) == [referenceCount |-> rc, value |-> v, present |-> TRUE]

\* A slot without a Handle object.
NoHandle == [exists |-> FALSE, mImpl |-> NULL, mKey |-> 1, mHash |-> Hash(1)]

\* Handle(Impl* impl, Key key, size_t hash)
Handle(impl, key, hash) ==
    [exists |-> TRUE, mImpl |-> impl, mKey |-> key, mHash |-> hash]

NoPanic == "none"
MissingEntry == "Cache is somehow missing entry"
FreedNonEmpty == "Freed a non-empty Cache"
NullImpl == "null Impl dereferenced"

\* ------------------------------------------- program store: the key type
\* The Impl of another cache instance (another MaterialCache).
OTHER_IMPL == "other impl"

\* Handle comparison by key only.
HandleEq_KeyOnly(lhs, rhs) == lhs.mKey = rhs.mKey

\* Handle::operator==
HandleEq(lhs, rhs) == lhs.mImpl = rhs.mImpl /\ lhs.mKey = rhs.mKey

\* Program::SpecializationConstant { id, value }
SpecializationConstant(id, value) == [id |-> id, value |-> value]

\* MaterialDefinition push constant { name, type }
PushConstant(name, type) == [name |-> name, type |-> type]

\* utils::CString::Hasher on the names in use
CStringHasher(name) == IF name = "a" THEN 1 ELSE 2

\* std::hash of a ConstantType
ConstantTypeHash(type) == IF type = "FLOAT" THEN 0 ELSE 1

\* struct Specialization (pushConstants is the array over shader stages)
Specialization(definition, variant, constants, pushConstants) ==
    [definition |-> definition, variant |-> variant,
     specializationConstants |-> constants, pushConstants |-> pushConstants]

\* Vector comparison that ignores the order: same size, and every element
\* of one is an element of the other.
VectorEq_AnyOrder(lhs, rhs) ==
    /\ Len(lhs) = Len(rhs)
    /\ \A i \in 1..Len(lhs) : \E j \in 1..Len(rhs) : lhs[i] = rhs[j]

\* operator== of FixedCapacityVector: same size, equal element by element
VectorEq(lhs, rhs) ==
    /\ Len(lhs) = Len(rhs)
    /\ \A i \in 1..Len(lhs) : lhs[i] = rhs[i]

\* operator== of std::array of vectors
ArrayEq(lhs, rhs) == \A i \in DOMAIN lhs : VectorEq(lhs[i], rhs[i])

\* operator== that leaves out the variant.
SpecializationEq_NoVariant(lhs, rhs) ==
    /\ HandleEq(lhs.definition, rhs.definition)
    /\ VectorEq(lhs.specializationConstants, rhs.specializationConstants)
    /\ ArrayEq(lhs.pushConstants, rhs.pushConstants)

\* Specialization::operator==
SpecializationEq(lhs, rhs) ==
    /\ HandleEq(lhs.definition, rhs.definition)
    /\ lhs.variant = rhs.variant
    /\ VectorEq(lhs.specializationConstants, rhs.specializationConstants)
    /\ ArrayEq(lhs.pushConstants, rhs.pushConstants)

\* The size_t values a Specialization hash can take.
HashSpace == HashRange * HashRange * HashRange

\* utils::hash::combine_fast(seed, value): mixes value into seed; the order
\* of the values matters.
combine_fast(seed, value) == (3 * seed + value + 1) % HashSpace

\* combine_fast applied to each value of a sequence in turn
RECURSIVE CombineAll(_, _)
CombineAll(seed, values) ==
    IF values = <<>> THEN seed
    ELSE CombineAll(combine_fast(seed, Head(values)), Tail(values))

\* for (it : specializationConstants) { combine it.id; combine it.value; }
RECURSIVE ConstantWords(_)
ConstantWords(constants) ==
    IF constants = <<>> THEN <<>>
    ELSE <<Head(constants).id, Head(constants).value>>
             \o ConstantWords(Tail(constants))

\* for (it : set) { combine Hasher(it.name); combine it.type; }
RECURSIVE PushWords(_)
PushWords(set) ==
    IF set = <<>> THEN <<>>
    ELSE <<CStringHasher(Head(set).name), ConstantTypeHash(Head(set).type)>>
             \o PushWords(Tail(set))

\* for (set : pushConstants) ...
RECURSIVE StageWords(_)
StageWords(pushConstants) ==
    IF pushConstants = <<>> THEN <<>>
    ELSE PushWords(Head(pushConstants)) \o StageWords(Tail(pushConstants))

\* Specialization::Hash::operator()
SpecializationHash(value) ==
    CombineAll(0, <<value.definition.mHash, value.variant>>
                      \o ConstantWords(value.specializationConstants)
                      \o StageWords(value.pushConstants))

\* The specialization-constant lists and push-constant arrays in use: an
\* empty one, and two that are permutations of each other.
ConstantsInOrder ==
    <<SpecializationConstant(0, 1), SpecializationConstant(1, 0)>>

ConstantsPermuted ==
    <<SpecializationConstant(1, 0), SpecializationConstant(0, 1)>>

ConstantLists == { <<>>, ConstantsInOrder, ConstantsPermuted }

NoPushConstants == << <<>>, <<>>, <<>> >>

PushArrays ==
    { NoPushConstants,
      << <<PushConstant("a", "FLOAT"), PushConstant("b", "INT")>>,
         <<>>, <<>> >>,
      << <<PushConstant("b", "INT"), PushConstant("a", "FLOAT")>>,
         <<>>, <<>> >> }

\* Variant keys in use
Variants == {0, 1}

\* backend::CompilerPriorityQueue
PriorityQueues == {"HIGH", "LOW"}

\* Program{}: the default-constructed backend program handle
NullProgram == "Program{}"

\* The key of a slot without an object.
NoSpec == Specialization(NoHandle, 0, <<>>, NoPushConstants)

VARIABLES
    mMap,          \* Impl::mMap: key -> Entry or NoEntry
    handles,       \* the Handle objects, by slot
    alive,         \* the cache (and its Impl) has not been destroyed
    panic,         \* the fatal failure that ended the process, or NoPanic
    outstanding,   \* history: handles acquired (returned by get, or made by
                   \* a copy) and not yet released (destroyed, or assigned
                   \* over by a copy-assignment), per key
    last,          \* history: the last operation and what it returned
    specs,         \* the clients' Specialization objects, by slot
    pMap,          \* Impl::mMap of the program cache
    pHandles,      \* the ProgramHandle objects, by slot
    threads,       \* the calls of get that threads are in the middle of
    compare,       \* two Specializations and the result of comparing them
    material       \* a MaterialDefinition object and the last call of its
                   \* getParameters

vars == <<mMap, handles, alive, panic, outstanding, last,
          specs, pMap, pHandles, threads, compare, material>>

\* What the operations of the program store leave alone.
rest == <<threads, compare, material>>

\* What the operations on the definition cache's handles leave alone.
ext == <<specs, pMap, pHandles, threads, compare, material>>

\* ------------------------------------------------------- Impl operations
\* mMap.find(key, hash) != mMap.end(): the probe starts at the bucket of
\* `hash` and compares keys.
find(m, key, hash) == m[key].present /\ hash = Hash(key)

\* Impl::at: the precondition fails iff the entry is missing.
at(m, key, hash) == IF find(m, key, hash) THEN NoPanic ELSE MissingEntry

\* acquire that counts the new handle twice.
acquire_Twice(m, key, hash) ==
    IF at(m, key, hash) # NoPanic
    THEN [map |-> m, panic |-> at(m, key, hash)]
    ELSE [map |-> [m EXCEPT ![key].referenceCount = @ + 2], panic |-> NoPanic]

\* Impl::acquire: at(key, hash).value().referenceCount++
acquire(m, key, hash) ==
    IF at(m, key, hash) # NoPanic
    THEN [map |-> m, panic |-> at(m, key, hash)]
    ELSE [map |-> [m EXCEPT ![key].referenceCount = @ + 1], panic |-> NoPanic]

\* release that empties the whole map when a count reaches 0, mMap.clear()
\* in place of mMap.erase(it).
release_ClearMap(m, key, hash) ==
    IF at(m, key, hash) # NoPanic
    THEN [map |-> m, panic |-> at(m, key, hash)]
    ELSE IF m[key].referenceCount - 1 = 0
         THEN [map |-> [k \in DOMAIN m |-> NoEntry], panic |-> NoPanic]
         ELSE [map |-> [m EXCEPT ![key].referenceCount = @ - 1],
               panic |-> NoPanic]

\* release with the erase on every call: the entry goes while handles remain.
release_EraseAlways(m, key, hash) ==
    IF at(m, key, hash) # NoPanic
    THEN [map |-> m, panic |-> at(m, key, hash)]
    ELSE [map |-> [m EXCEPT ![key] = NoEntry], panic |-> NoPanic]

\* release without the erase: the count goes to 0 and the entry stays.
release_NoErase(m, key, hash) ==
    IF at(m, key, hash) # NoPanic
    THEN [map |-> m, panic |-> at(m, key, hash)]
    ELSE [map |-> [m EXCEPT ![key].referenceCount = @ - 1], panic |-> NoPanic]

\* release with a post-decrement, `referenceCount-- == 0`: the comparison
\* sees the count from before the decrement.
release_PostDecrement(m, key, hash) ==
    IF at(m, key, hash) # NoPanic
    THEN [map |-> m, panic |-> at(m, key, hash)]
    ELSE IF m[key].referenceCount = 0
         THEN [map |-> [m EXCEPT ![key] = NoEntry], panic |-> NoPanic]
         ELSE [map |-> [m EXCEPT ![key].referenceCount = @ - 1],
               panic |-> NoPanic]

\* Impl::release: if (--it.value().referenceCount == 0) mMap.erase(it)
release(m, key, hash) ==
    IF at(m, key, hash) # NoPanic
    THEN [map |-> m, panic |-> at(m, key, hash)]
    ELSE IF m[key].referenceCount - 1 = 0
         THEN [map |-> [m EXCEPT ![key] = NoEntry], panic |-> NoPanic]
         ELSE [map |-> [m EXCEPT ![key].referenceCount = @ - 1],
               panic |-> NoPanic]

\* get that inserts the entry before it looks at what the factory returned,
\* and then reports the failure.
get_InsertBeforeCheck(m, key, made) ==
    LET hash == Hash(key) IN
    IF find(m, key, hash)
    THEN [map |-> [m EXCEPT ![key].referenceCount = @ + 1],
          invoked |-> FALSE, hasValue |-> TRUE,
          handle |-> Handle(IMPL, key, hash), value |-> m[key].value]
    ELSE IF made # NoValue
         THEN [map |-> [m EXCEPT ![key] = Entry(1, made)],
               invoked |-> TRUE, hasValue |-> TRUE,
               handle |-> Handle(IMPL, key, hash), value |-> made]
         ELSE [map |-> [m EXCEPT ![key] = Entry(0, NoValue)],
               invoked |-> TRUE, hasValue |-> FALSE,
               handle |-> NoHandle, value |-> NoValue]

\* get that remembers a failed construction: the failure is stored as an
\* entry without a value, which later calls find.
get_CacheFailure(m, key, made) ==
    LET hash == Hash(key) IN
    IF find(m, key, hash)
    THEN IF m[key].value = NoValue
         THEN [map |-> m, invoked |-> FALSE, hasValue |-> FALSE,
               handle |-> NoHandle, value |-> NoValue]
         ELSE [map |-> [m EXCEPT ![key].referenceCount = @ + 1],
               invoked |-> FALSE, hasValue |-> TRUE,
               handle |-> Handle(IMPL, key, hash), value |-> m[key].value]
    ELSE IF made # NoValue
         THEN [map |-> [m EXCEPT ![key] = Entry(1, made)],
               invoked |-> TRUE, hasValue |-> TRUE,
               handle |-> Handle(IMPL, key, hash), value |-> made]
         ELSE [map |-> [m EXCEPT ![key] = Entry(1, NoValue)],
               invoked |-> TRUE, hasValue |-> FALSE,
               handle |-> NoHandle, value |-> NoValue]

\* get whose hit path hands out a handle without counting it.
get_HitNoCount(m, key, made) ==
    LET hash == Hash(key) IN
    IF find(m, key, hash)
    THEN [map |-> m,
          invoked |-> FALSE, hasValue |-> TRUE,
          handle |-> Handle(IMPL, key, hash), value |-> m[key].value]
    ELSE IF made # NoValue
         THEN [map |-> [m EXCEPT ![key] = Entry(1, made)],
               invoked |-> TRUE, hasValue |-> TRUE,
               handle |-> Handle(IMPL, key, hash), value |-> made]
         ELSE [map |-> m, invoked |-> TRUE, hasValue |-> FALSE,
               handle |-> NoHandle, value |-> NoValue]

\* get whose miss path inserts the entry with count 0.
get_InsertZero(m, key, made) ==
    LET hash == Hash(key) IN
    IF find(m, key, hash)
    THEN [map |-> [m EXCEPT ![key].referenceCount = @ + 1],
          invoked |-> FALSE, hasValue |-> TRUE,
          handle |-> Handle(IMPL, key, hash), value |-> m[key].value]
    ELSE IF made # NoValue
         THEN [map |-> [m EXCEPT ![key] = Entry(0, made)],
               invoked |-> TRUE, hasValue |-> TRUE,
               handle |-> Handle(IMPL, key, hash), value |-> made]
         ELSE [map |-> m, invoked |-> TRUE, hasValue |-> FALSE,
               handle |-> NoHandle, value |-> NoValue]

\* Impl::get.  `made` is what factory() returns when it is called: a value
\* or NoValue (std::nullopt).  The result records whether the factory was
\* called and the returned optional<pair<Handle, T&>>.
get(m, key, made) ==
    LET hash == Hash(key) IN
    IF find(m, key, hash)
    THEN [map |-> [m EXCEPT ![key].referenceCount = @ + 1],
          invoked |-> FALSE, hasValue |-> TRUE,
          handle |-> Handle(IMPL, key, hash), value |-> m[key].value]
    ELSE IF made # NoValue
         THEN [map |-> [m EXCEPT ![key] = Entry(1, made)],
               invoked |-> TRUE, hasValue |-> TRUE,
               handle |-> Handle(IMPL, key, hash), value |-> made]
         ELSE [map |-> m, invoked |-> TRUE, hasValue |-> FALSE,
               handle |-> NoHandle, value |-> NoValue]

\* The evaluations of Hash during Impl::get: size_t hash = Hash{}(key) for
\* the lookup, and on a miss with a value one more inside
\* mMap.insert({key, Entry{...}}), which is handed the key without the hash
\* and has to hash it to place the entry.
HashEvaluations(m, key, made) ==
    1 + (IF ~find(m, key, Hash(key)) /\ made # NoValue THEN 1 ELSE 0)

\* ------------------------------------------------------------- histories
\* `last` records the last operation: its name; the key of the entry it
\* looked up, acquired or released (0 if it touched no entry); for get,
\* whether the factory was called and what was returned; for operator*, the
\* value read; and, for get, what the operation right before it did to the
\* same key ("failed": a get whose factory built nothing, "evicted": a
\* destructor that erased the entry, "none" otherwise); for a destructor,
\* what the operation right before it did ("copied": it copy-constructed a
\* handle for the same key, "moved-from": it move-constructed a handle from
\* a handle that had this one's key, and this one is empty); for a
\* copy-assignment, `old` is the key the assigned-to handle released (0 if
\* it was empty); `moved` is the set of keys whose entries the map moved
\* to another storage slot during the operation; `id` and `rejected` are
\* getDefinition's, as are `corrupt` (the crc32 stored in the package
\* differs from the crc32 of its content) and `crcChecked` (the engine's
\* feature flag check_crc32_after_loading); `hashed` is the number of
\* times a get evaluated the hash function of the key; `spec`, `priority` and
\* `prevPriority` are those of
\* the operations of the program store: the Specialization looked up,
\* copied or destroyed, the priority queue of a getProgram request, and
\* the priority queue of the getProgram request right before it for the
\* same Specialization; `compiled` is the priority queue a getProgram
\* request handed to the program compiler ("none": it did not call the
\* compiler), and `compiles` is whether the backend can compile the
\* requested program.
Op(name, key) ==
    [op |-> name, key |-> key, invoked |-> FALSE, hasValue |-> FALSE,
     value |-> NoValue, prev |-> "none", old |-> 0, moved |-> {},
     id |-> 0, rejected |-> FALSE, corrupt |-> FALSE, crcChecked |-> FALSE,
     hashed |-> 0,
     spec |-> NoSpec, priority |-> "none", prevPriority |-> "none",
     compiled |-> "none", compiles |-> TRUE]

\* The key a handle refers to in the cache, 0 for an empty handle.
KeyOf(h) == IF h.mImpl # NULL THEN h.mKey ELSE 0

Prev(key) ==
    IF last.op \in {"get", "getDefinition"} /\ last.key = key
           /\ last.invoked /\ ~last.hasValue
    THEN "failed"
    ELSE IF last.op = "dtor" /\ last.key = key /\ ~mMap[key].present
         THEN "evicted"
         ELSE "none"

PrevOfDtor(h) ==
    IF last.op = "copy-ctor" /\ last.key # 0 /\ last.key = KeyOf(h)
    THEN "copied"
    ELSE IF last.op = "move-ctor" /\ last.key # 0 /\ h.mImpl = NULL
            /\ h.mKey = last.key
         THEN "moved-from"
         ELSE "none"

Ok(m) == [map |-> m, panic |-> NoPanic]

\* Map is a tsl::robin_map, an open-addressing table that keeps the entries
\* in its bucket array: an insert (displacement of entries, rehash) or an
\* erase (backward shift) can move the entries of other keys to other
\* buckets, and which ones it moves depends on the layout.
\* m2 has an entry m1 has not (insert), or lacks one m1 has (erase).
Inserted(m1, m2) == {k \in Keys : ~m1[k].present /\ m2[k].present}

Erased(m1, m2) == {k \in Keys : m1[k].present /\ ~m2[k].present}

\* The possible sets of relocated entries when one handler takes the map
\* from m1 to m2.
RelocatesBy(m1, m2) ==
    IF Inserted(m1, m2) \cup Erased(m1, m2) # {}
    THEN SUBSET {k \in Keys : m1[k].present /\ m2[k].present}
    ELSE {{}}

\* The failures the cache reports through FILAMENT_CHECK_PRECONDITION.
PreconditionFailures == {MissingEntry, FreedNonEmpty}

Running == panic = NoPanic

\* The sum of a per-key counter over all keys.
RECURSIVE SumTo(_, _)
SumTo(f, n) == IF n = 0 THEN 0 ELSE f[n] + SumTo(f, n - 1)

Total(f) == SumTo(f, NumKeys)

\* ------------------------------------------- program store: the cache
\* ProgramCache = Cache<Specialization, Program, Specialization::Hash>.  Its
\* keys are Specializations, and every copy of a key holds a counted
\* DefinitionHandle: the copy in the map entry, and the copy in mKey of each
\* ProgramHandle object.

\* The Impl of the program cache.
PROGRAM_IMPL == "program impl"

\* The Specializations the clients of the program store build: one per
\* definition, embedding a live handle of the definition cache.
ProgramKeys ==
    {Specialization(Handle(IMPL, k, Hash(k)), 0, ConstantsInOrder,
                    NoPushConstants) : k \in Keys}

\* A slot without a Specialization object.
NoSpecialization == [exists |-> FALSE, value |-> NoSpec]

\* A slot without a ProgramHandle object.
NoProgramHandle ==
    [exists |-> FALSE, mImpl |-> NULL, mKey |-> NoSpec, mHash |-> 0]

\* Handle(Impl* impl, Key key, size_t hash) of the program cache
ProgramHandle(impl, key, hash) ==
    [exists |-> TRUE, mImpl |-> impl, mKey |-> key, mHash |-> hash]

\* The two maps an operation of the program cache works on, and the fatal
\* failure that stopped it.
World(pm, dm) == [pm |-> pm, dm |-> dm, panic |-> NoPanic]

\* Copy constructor of Specialization: the copy of the embedded
\* DefinitionHandle acquires its entry (Handle copy constructor).
copyKey(w, key) ==
    IF w.panic # NoPanic \/ key.definition.mImpl = NULL THEN w
    ELSE LET r == acquire(w.dm, key.definition.mKey, key.definition.mHash)
         IN [w EXCEPT !.dm = r.map, !.panic = r.panic]

\* Destructor of Specialization: the embedded DefinitionHandle releases its
\* entry (Handle destructor).
destroyKey(w, key) ==
    IF w.panic # NoPanic \/ key.definition.mImpl = NULL THEN w
    ELSE LET r == release(w.dm, key.definition.mKey, key.definition.mHash)
         IN [w EXCEPT !.dm = r.map, !.panic = r.panic]

\* mMap.find(key, hash) of the program cache
programFind(pm, key, hash) ==
    pm[key].present /\ hash = SpecializationHash(key)

\* Impl::acquire of the program cache
programAcquire(w, key, hash) ==
    IF w.panic # NoPanic THEN w
    ELSE IF ~programFind(w.pm, key, hash)
         THEN [w EXCEPT !.panic = MissingEntry]
         ELSE [w EXCEPT !.pm[key].referenceCount = @ + 1]

\* Impl::release of the program cache: erasing the entry destroys its key.
programRelease(w, key, hash) ==
    IF w.panic # NoPanic THEN w
    ELSE IF ~programFind(w.pm, key, hash)
         THEN [w EXCEPT !.panic = MissingEntry]
         ELSE IF w.pm[key].referenceCount - 1 = 0
              THEN destroyKey([w EXCEPT !.pm[key] = NoEntry], key)
              ELSE [w EXCEPT !.pm[key].referenceCount = @ - 1]

\* Impl::get of the program cache.  insert({key, Entry{1, value}}) copies
\* the key into the map, and Handle(this, key, hash) copies it into mKey.
programGet(w, key, made) ==
    LET hash == SpecializationHash(key) IN
    IF programFind(w.pm, key, hash)
    THEN [world |-> copyKey([w EXCEPT !.pm[key].referenceCount = @ + 1],
                            key),
          invoked |-> FALSE, hasValue |-> TRUE,
          handle |-> ProgramHandle(PROGRAM_IMPL, key, hash),
          value |-> w.pm[key].value]
    ELSE IF made # NoValue
         THEN [world |-> copyKey(copyKey([w EXCEPT
                                            !.pm[key] = Entry(1, made)],
                                         key), key),
               invoked |-> TRUE, hasValue |-> TRUE,
               handle |-> ProgramHandle(PROGRAM_IMPL, key, hash),
               value |-> made]
         ELSE [world |-> w, invoked |-> TRUE, hasValue |-> FALSE,
               handle |-> NoProgramHandle, value |-> NoValue]

\* The factory of getProgram, []() { return Program{}; }: it captures
\* neither the specialization nor priorityQueue and calls no compiler, so
\* it returns the empty Program whether or not the backend can compile the
\* requested program.  `compiled` is the priority queue handed to the
\* compiler.
factory(specialization, priorityQueue, compiles) ==
    [value |-> NullProgram, compiled |-> "none"]

\* getProgram with the priority queue in the identity of the request: a
\* request for the high-priority queue does not share the entry, it runs
\* the factory and stores a new entry.
getProgram_PriorityInKey(w, specialization, priorityQueue, compiles) ==
    IF priorityQueue = "HIGH"
    THEN programGet([w EXCEPT !.pm[specialization] = NoEntry],
                    specialization,
                    factory(specialization, priorityQueue, compiles).value)
    ELSE programGet(w, specialization,
                    factory(specialization, priorityQueue, compiles).value)

\* MaterialCache::getProgram: mProgramCache.get(specialization, factory).
\* `compiles` is whether the backend can compile the requested program.
getProgram(w, specialization, priorityQueue, compiles) ==
    programGet(w, specialization,
               factory(specialization, priorityQueue, compiles).value)

\* ------------------------------------------------ threads calling get
Threads == {1, 2}

\* A thread that is not inside get.  pc is the step of Impl::get the thread
\* is at ("find", "count", "factory", "insert"), or "done" once get has
\* returned; seen is the referenceCount its find read;
\* key and made are the arguments of its call (made: what its factory
\* returns); absent: the key had no entry when the call began; invoked: the
\* call ran the factory; hasValue: the call returned a handle, which the
\* thread still holds; raced: a call of get or a release by this thread has
\* overlapped a call of get by another thread.
IdleThread ==
    [pc |-> "idle", key |-> 0, made |-> NoValue, absent |-> FALSE,
     seen |-> 0, invoked |-> FALSE, hasValue |-> FALSE, raced |-> FALSE]

\* ------------------------------------------- comparing Specializations
\* The operands of operator== and of Hash; whether rhs was made as a copy
\* of lhs; and, once `done`, the results.
Comparison(lhs, rhs) ==
    [lhs |-> lhs, rhs |-> rhs, copied |-> FALSE, done |-> FALSE,
     equal |-> FALSE, handlesEqual |-> FALSE, lhsHash |-> 0, rhsHash |-> 0]

\* ------------------------------------------- MaterialDefinition: getters
\* The uniform fields, samplers and subpass a package can declare.
MaxUniforms == 2
MaxSamplers == 2

\* BufferInterfaceBlock::FieldInfo number k: its name and its array size
\* (0 for a field that is not an array).
UniformInfo(k) == [name |-> <<"uniform", k>>, size |-> 3 * ((k + 1) % 2)]

\* SamplerInterfaceBlock::SamplerInfo number k
SamplerInfo(k) == [name |-> <<"sampler", k>>]

\* SubpassInfo: isValid is false when the package has no subpass chunk.
SubpassInfo(isValid) == [name |-> <<"subpass", 1>>, isValid |-> isValid]

\* mUniformInterfaceBlock.getFieldInfoList() and
\* mSamplerInterfaceBlock.getSamplerInfoList() with n elements
FieldInfoList(n) == [k \in 1..n |-> UniformInfo(k)]

SamplerInfoList(n) == [k \in 1..n |-> SamplerInfo(k)]

\* Material::ParameterInfo as getParameters fills it in
ParameterInfo(name, isSampler, isSubpass, count) ==
    [name |-> name, isSampler |-> isSampler, isSubpass |-> isSubpass,
     count |-> count]

\* A slot of the caller's array that nothing has been written to.
Unwritten == ParameterInfo(<<"unwritten", 0>>, FALSE, FALSE, 0)

\* The caller's array: more slots than any material has parameters, so that
\* a count above getParameterCount() can be passed.
ArraySize == MaxUniforms + MaxSamplers + 2

Min(a, b) == IF a < b THEN a ELSE b

Max(a, b) == IF a > b THEN a ELSE b

\* MaterialDefinition::getParameterCount
getParameterCount(definition) ==
    Len(definition.uniforms) + Len(definition.samplers)
        + (IF definition.subpass.isValid THEN 1 ELSE 0)

\* for ( ; i < uniformCount; i++) parameters[i] = uniforms[i] (C++ index i
\* is position i + 1 of the sequences).
RECURSIVE UniformLoop(_, _, _, _)
UniformLoop(parameters, i, uniformCount, uniforms) ==
    IF i < uniformCount
    THEN UniformLoop(
             [parameters EXCEPT
                ![i + 1] = ParameterInfo(uniforms[i + 1].name, FALSE, FALSE,
                                         Max(1, uniforms[i + 1].size))],
             i + 1, uniformCount, uniforms)
    ELSE [parameters |-> parameters, i |-> i]

\* for (size_t j = 0; i < count && j < samplerCount; i++, j++)
\*     parameters[i] = samplers[j]
RECURSIVE SamplerLoop(_, _, _, _, _)
SamplerLoop(parameters, i, j, count, samplers) ==
    IF i < count /\ j < Len(samplers)
    THEN SamplerLoop(
             [parameters EXCEPT
                ![i + 1] = ParameterInfo(samplers[j + 1].name, TRUE, FALSE, 1)],
             i + 1, j + 1, count, samplers)
    ELSE [parameters |-> parameters, i |-> i]

\* getParameters without the clamp of count to getParameterCount(): the
\* subpass is written whenever there is room in the array, and the count
\* asked for is returned.
getParameters_NoClamp(definition, parameters, count) ==
    LET u == UniformLoop(parameters, 0,
                         Min(count, Len(definition.uniforms)),
                         definition.uniforms)
        s == SamplerLoop(u.parameters, u.i, 0, count, definition.samplers)
    IN
    [parameters |->
         IF definition.subpass.isValid /\ s.i < count
         THEN [s.parameters EXCEPT
                 ![s.i + 1] = ParameterInfo(definition.subpass.name,
                                            FALSE, TRUE, 1)]
         ELSE s.parameters,
     ret |-> count]

\* MaterialDefinition::getParameters(parameters, count): the array after
\* the call, and the value returned.
getParameters(definition, parameters, count) ==
    LET clamped == Min(count, getParameterCount(definition))
        u == UniformLoop(parameters, 0,
                         Min(clamped, Len(definition.uniforms)),
                         definition.uniforms)
        s == SamplerLoop(u.parameters, u.i, 0, clamped, definition.samplers)
    IN
    [parameters |->
         IF definition.subpass.isValid /\ s.i < clamped
         THEN [s.parameters EXCEPT
                 ![s.i + 1] = ParameterInfo(definition.subpass.name,
                                            FALSE, TRUE, 1)]
         ELSE s.parameters,
     ret |-> clamped]

\* ------------------------------- MaterialDefinition: processBlendingMode
\* filament::BlendingMode
BlendingModes ==
    {"OPAQUE", "TRANSPARENT", "ADD", "MASKED", "FADE", "MULTIPLY", "SCREEN",
     "CUSTOM"}

\* The blend functions a package with BlendingMode::CUSTOM carries
\* (parser->getCustomBlendFunction).
CustomBlendFunctions == <<"SRC_ALPHA", "ONE", "DST_COLOR", "ZERO">>

\* backend::RasterState, the fields processBlendingMode assigns
RasterState(srcRGB, srcAlpha, dstRGB, dstAlpha, depthWrite) ==
    [blendFunctionSrcRGB |-> srcRGB, blendFunctionSrcAlpha |-> srcAlpha,
     blendFunctionDstRGB |-> dstRGB, blendFunctionDstAlpha |-> dstAlpha,
     depthWrite |-> depthWrite, alphaToCoverage |-> FALSE]

\* switch (mBlendingMode) of processBlendingMode
BlendSwitch(mBlendingMode) ==
    IF mBlendingMode \in {"MASKED", "OPAQUE"}
    THEN RasterState("ONE", "ONE", "ZERO", "ZERO", TRUE)
    ELSE IF mBlendingMode \in {"TRANSPARENT", "FADE"}
    THEN RasterState("ONE", "ONE", "ONE_MINUS_SRC_ALPHA",
                     "ONE_MINUS_SRC_ALPHA", FALSE)
    ELSE IF mBlendingMode = "ADD"
    THEN RasterState("ONE", "ONE", "ONE", "ONE", FALSE)
    ELSE IF mBlendingMode = "MULTIPLY"
    THEN RasterState("ZERO", "ZERO", "SRC_COLOR", "SRC_COLOR", FALSE)
    ELSE IF mBlendingMode = "SCREEN"
    THEN RasterState("ONE", "ONE", "ONE_MINUS_SRC_COLOR",
                     "ONE_MINUS_SRC_COLOR", FALSE)
    ELSE RasterState(CustomBlendFunctions[1], CustomBlendFunctions[2],
                     CustomBlendFunctions[3], CustomBlendFunctions[4], FALSE)

\* processBlendingMode that applies the package's depth write before the
\* switch: the blending mode's default overwrites the explicit value.
processBlendingMode_DefaultWins(package) ==
    LET switched == BlendSwitch(package.blendingMode) IN
    [switched EXCEPT
       !.alphaToCoverage = IF package.alphaToCoverageSet
                           THEN package.alphaToCoverage
                           ELSE package.blendingMode = "MASKED"]

\* MaterialDefinition::processBlendingMode: mRasterState after the call,
\* for a package with the given blending mode, depth-write and
\* alpha-to-coverage settings.
processBlendingMode(package) ==
    LET switched == BlendSwitch(package.blendingMode) IN
    [switched EXCEPT
       !.depthWrite = IF package.depthWriteSet THEN package.depthWrite
                      ELSE switched.depthWrite,
       !.alphaToCoverage = IF package.alphaToCoverageSet
                           THEN package.alphaToCoverage
                           ELSE package.blendingMode = "MASKED"]

\* ------------------------------------------ MaterialDefinition: objects
\* What MaterialParser reads from the package for the constructor: the
\* numbers of uniform fields and samplers, whether there is a subpass, the
\* blending mode, and the depth-write and alpha-to-coverage settings with
\* their "set" flags.
ParsedPackages ==
    [uniforms : 0..MaxUniforms, samplers : 0..MaxSamplers,
     subpass : BOOLEAN, blendingMode : BlendingModes,
     depthWriteSet : BOOLEAN, depthWrite : BOOLEAN,
     alphaToCoverageSet : BOOLEAN, alphaToCoverage : BOOLEAN]

\* No getParameters call has been made.
NoCall ==
    [made |-> FALSE, count |-> 0, ret |-> 0,
     parameters |-> [i \in 1..ArraySize |-> Unwritten]]

\* MaterialDefinition::MaterialDefinition(engine, parser): the fields the
\* getters and processBlendingMode work on; `package` keeps what the
\* parser read and `call` the last call of getParameters.
MaterialDefinition(package) ==
    [exists |-> TRUE,
     package |-> package,
     uniforms |-> FieldInfoList(package.uniforms),
     samplers |-> SamplerInfoList(package.samplers),
     subpass |-> SubpassInfo(package.subpass),
     mBlendingMode |-> package.blendingMode,
     mRasterState |-> processBlendingMode(package),
     call |-> NoCall]

\* No MaterialDefinition has been constructed.
NoMaterial == [exists |-> FALSE]

\* ------------------------------------------------------------------ Init
Init ==
    /\ mMap = [k \in Keys |-> NoEntry]
    /\ handles = [s \in Slots |-> NoHandle]
    /\ alive = TRUE
    /\ panic = NoPanic
    /\ outstanding = [k \in Keys |-> 0]
    /\ last = Op("init", 0)
    /\ specs = [s \in 1..MaxSpecs |-> NoSpecialization]
    /\ pMap = [k \in ProgramKeys |-> NoEntry]
    /\ pHandles = [p \in Slots |-> NoProgramHandle]
    /\ threads = [t \in Threads |-> IdleThread]
    /\ compare = Comparison(NoSpec, NoSpec)
    /\ material = NoMaterial

\* --------------------------------------------------------------- actions
\* A new Handle object takes the first free slot: slots are interchangeable
\* names for the program's Handle variables.
FreeSlots == {s \in Slots : ~handles[s].exists}

NewSlot == CHOOSE s \in FreeSlots : \A t \in FreeSlots : s <= t

\* auto r = cache.get(key, factory); a returned Handle ends up in a new
\* Handle object (the temporaries it is moved through are empty when
\* destroyed).
CacheGet(key, made) ==
    LET r == get(mMap, key, made)
        dst == NewSlot
    IN
    /\ Running /\ alive
    /\ r.hasValue => FreeSlots # {} /\ Total(outstanding) < MaxOutstanding
    /\ mMap' = r.map
    /\ handles' = IF r.hasValue THEN [handles EXCEPT ![dst] = r.handle]
                  ELSE handles
    /\ outstanding' = IF r.hasValue THEN [outstanding EXCEPT ![key] = @ + 1]
                      ELSE outstanding
    /\ \E moved \in RelocatesBy(mMap, r.map) :
           last' = [Op("get", key) EXCEPT
                      !.invoked = r.invoked, !.hasValue = r.hasValue,
                      !.value = r.value, !.prev = Prev(key),
                      !.hashed = HashEvaluations(mMap, key, made),
                      !.moved = moved]
    /\ UNCHANGED <<alive, panic>>
    /\ UNCHANGED ext

\* A move constructor that leaves rhs as it was: two handles for one
\* acquisition.
HandleMoveCtor_KeepsSource(src) ==
    /\ Running
    /\ FreeSlots # {} /\ handles[src].exists
    /\ handles' = [handles EXCEPT
                     ![NewSlot] = Handle(handles[src].mImpl, handles[src].mKey,
                                     handles[src].mHash)]
    /\ last' = Op("move-ctor", KeyOf(handles[src]))
    /\ UNCHANGED <<mMap, alive, panic, outstanding>>
    /\ UNCHANGED ext

\* Handle(Handle&& rhs): the fields are copied and rhs.mImpl is nulled.
HandleMoveCtor(src) ==
    /\ Running
    /\ FreeSlots # {} /\ handles[src].exists
    /\ handles' = [handles EXCEPT
                     ![NewSlot] = Handle(handles[src].mImpl, handles[src].mKey,
                                     handles[src].mHash),
                     ![src].mImpl = NULL]
    /\ last' = Op("move-ctor", KeyOf(handles[src]))
    /\ UNCHANGED <<mMap, alive, panic, outstanding>>
    /\ UNCHANGED ext

\* A move-assignment that leaves out `mHash = rhs.mHash`: the handle has
\* the new key with the hash of the old one.
HandleMoveAssign_KeepsHash(dst, src) ==
    LET assigned == [handles EXCEPT
                       ![dst] = Handle(handles[src].mImpl, handles[src].mKey,
                                       handles[dst].mHash)]
    IN
    /\ Running
    /\ handles[dst].exists /\ handles[src].exists
    /\ handles' = [assigned EXCEPT ![src].mImpl = NULL]
    /\ last' = Op("move-assign", KeyOf(handles[src]))
    /\ UNCHANGED <<mMap, alive, panic, outstanding>>
    /\ UNCHANGED ext

\* Handle& operator=(Handle&& rhs): the fields are overwritten, then
\* rhs.mImpl is nulled (also when rhs is *this).  Nothing is released.
HandleMoveAssign(dst, src) ==
    LET assigned == [handles EXCEPT
                       ![dst] = Handle(handles[src].mImpl, handles[src].mKey,
                                       handles[src].mHash)]
    IN
    /\ Running
    /\ handles[dst].exists /\ handles[src].exists
    /\ handles' = [assigned EXCEPT ![src].mImpl = NULL]
    /\ last' = Op("move-assign", KeyOf(handles[src]))
    /\ UNCHANGED <<mMap, alive, panic, outstanding>>
    /\ UNCHANGED ext

\* Handle(const Handle& rhs): the fields are copied; if (mImpl) acquire.
HandleCopyCtor(src) ==
    LET rhs == handles[src]
        r == IF rhs.mImpl # NULL THEN acquire(mMap, rhs.mKey, rhs.mHash)
             ELSE Ok(mMap)
        dst == NewSlot
    IN
    /\ Running
    /\ FreeSlots # {} /\ rhs.exists
    /\ rhs.mImpl # NULL => alive /\ Total(outstanding) < MaxOutstanding
    /\ mMap' = r.map
    /\ panic' = r.panic
    /\ handles' = IF r.panic = NoPanic
                  THEN [handles EXCEPT
                          ![dst] = Handle(rhs.mImpl, rhs.mKey, rhs.mHash)]
                  ELSE handles
    /\ outstanding' = IF rhs.mImpl # NULL /\ r.panic = NoPanic
                      THEN [outstanding EXCEPT ![rhs.mKey] = @ + 1]
                      ELSE outstanding
    /\ last' = Op("copy-ctor", KeyOf(rhs))
    /\ UNCHANGED alive
    /\ UNCHANGED ext

\* A copy-assignment that, like the move-assignment, forgets to release the
\* entry the assigned-to handle referenced.
HandleCopyAssign_NoRelease(dst, src) ==
    LET self == handles[dst]
        rhs == handles[src]
        r2 == IF rhs.mImpl # NULL
              THEN acquire(mMap, rhs.mKey, rhs.mHash)
              ELSE Ok(mMap)
    IN
    /\ Running
    /\ self.exists /\ rhs.exists
    /\ (self.mImpl # NULL \/ rhs.mImpl # NULL) => alive
    /\ rhs.mImpl # NULL => Total(outstanding) < MaxOutstanding
    /\ mMap' = r2.map
    /\ panic' = r2.panic
    /\ handles' = IF r2.panic = NoPanic
                  THEN [handles EXCEPT
                          ![dst] = Handle(rhs.mImpl, rhs.mKey, rhs.mHash)]
                  ELSE handles
    /\ outstanding' = IF rhs.mImpl # NULL /\ r2.panic = NoPanic
                      THEN [outstanding EXCEPT ![rhs.mKey] = @ + 1]
                      ELSE outstanding
    /\ last' = [Op("copy-assign", KeyOf(rhs)) EXCEPT !.old = KeyOf(self)]
    /\ UNCHANGED alive
    /\ UNCHANGED ext

\* Handle& operator=(const Handle& rhs): if (mImpl) release the own entry;
\* if (rhs.mImpl) acquire rhs's entry; then the fields are copied.  A failed
\* precondition in at() ends the process where it happens.
HandleCopyAssign(dst, src) ==
    LET self == handles[dst]
        rhs == handles[src]
        r1 == IF self.mImpl # NULL
              THEN release(mMap, self.mKey, self.mHash)
              ELSE Ok(mMap)
        r2 == IF r1.panic = NoPanic /\ rhs.mImpl # NULL
              THEN acquire(r1.map, rhs.mKey, rhs.mHash)
              ELSE r1
        out1 == IF self.mImpl # NULL /\ r1.panic = NoPanic
                THEN [outstanding EXCEPT ![self.mKey] = @ - 1]
                ELSE outstanding
    IN
    /\ Running
    /\ self.exists /\ rhs.exists
    /\ (self.mImpl # NULL \/ rhs.mImpl # NULL) => alive
    /\ rhs.mImpl # NULL => Total(out1) < MaxOutstanding
    /\ mMap' = r2.map
    /\ panic' = r2.panic
    /\ handles' = IF r2.panic = NoPanic
                  THEN [handles EXCEPT
                          ![dst] = Handle(rhs.mImpl, rhs.mKey, rhs.mHash)]
                  ELSE handles
    /\ outstanding' = IF rhs.mImpl # NULL /\ r2.panic = NoPanic
                      THEN [out1 EXCEPT ![rhs.mKey] = @ + 1]
                      ELSE out1
    /\ \E moved \in RelocatesBy(mMap, r2.map) :
           last' = [Op("copy-assign", KeyOf(rhs)) EXCEPT
                      !.old = KeyOf(self), !.moved = moved]
    /\ UNCHANGED alive
    /\ UNCHANGED ext

\* ~Handle(): if (mImpl) release; the object is gone afterwards.
HandleDtor(h) ==
    LET self == handles[h]
        r == IF self.mImpl # NULL THEN release(mMap, self.mKey, self.mHash)
             ELSE Ok(mMap)
    IN
    /\ Running
    /\ self.exists
    /\ self.mImpl # NULL => alive
    /\ mMap' = r.map
    /\ panic' = r.panic
    /\ handles' = IF r.panic = NoPanic THEN [handles EXCEPT ![h] = NoHandle]
                  ELSE handles
    /\ outstanding' = IF self.mImpl # NULL /\ r.panic = NoPanic
                      THEN [outstanding EXCEPT ![self.mKey] = @ - 1]
                      ELSE outstanding
    /\ \E moved \in RelocatesBy(mMap, r.map) :
           last' = [Op("dtor", KeyOf(self)) EXCEPT
                      !.prev = PrevOfDtor(self), !.moved = moved]
    /\ UNCHANGED alive
    /\ UNCHANGED ext

\* T& operator*(): mImpl->at(mKey, mHash).value().value.  With a null mImpl
\* the call is undefined behaviour: the process crashes, or it goes on with
\* whatever the read produced.
HandleDeref(h) ==
    LET self == handles[h] IN
    /\ Running
    /\ self.exists
    /\ self.mImpl # NULL => alive
    /\ IF self.mImpl # NULL
       THEN /\ panic' = at(mMap, self.mKey, self.mHash)
            /\ last' = [Op("deref", self.mKey) EXCEPT
                          !.hasValue = find(mMap, self.mKey, self.mHash),
                          !.value = mMap[self.mKey].value]
       ELSE \/ /\ panic' = NullImpl
               /\ last' = Op("deref", 0)
            \/ /\ panic' = NoPanic
               /\ \E v \in Values :
                      last' = [Op("deref", 0) EXCEPT
                                 !.hasValue = TRUE, !.value = v]
    /\ UNCHANGED <<mMap, handles, alive, outstanding>>
    /\ UNCHANGED ext

\* ~Impl() (the cache is destroyed): the map must be empty.
ImplDtor ==
    /\ Running /\ alive
    /\ IF \A k \in Keys : ~mMap[k].present
       THEN alive' = FALSE /\ panic' = NoPanic
       ELSE alive' = alive /\ panic' = FreedNonEmpty
    /\ last' = Op("~Impl", 0)
    /\ UNCHANGED <<mMap, handles, outstanding>>
    /\ UNCHANGED ext

\* ------------------------------------------------- the definition store
\* MaterialCache keeps the parsed definitions in a
\* DefinitionCache = Cache<uint64_t, MaterialDefinition>, keyed by the
\* package's cache id; getDefinition is the only caller of its get.

\* What the engine contributes to a call: its backend, its shader model and
\* the feature flag features.material.check_crc32_after_loading.
Backends == {"NOOP", "OPENGL"}

ShaderModels == {"MOBILE", "DESKTOP"}

DefaultEngine ==
    [backend |-> "OPENGL", shaderModel |-> "DESKTOP", checkCrc32 |-> TRUE]

\* hash::crc32Update(0, payload, originalSize, crc32Table)
Crc32(content) == IF content = "v1" THEN "crc(v1)" ELSE "crc(v2)"

\* What MaterialParser finds in a package: the result of parse(), the
\* material version, the cache id (0: the package has none, getCacheId
\* returns false), the stored crc32, the shader models it was built for, and
\* the content, which stands for all the bytes the definition is built from.
\* GoodPackage is a package that passes every test of DefaultEngine.
ParseResults == {"SUCCESS", "ERROR_MISSING_BACKEND", "ERROR_OTHER"}

Versions == {"MATERIAL_VERSION", "other version"}

GoodPackage(id, content) ==
    [parse |-> "SUCCESS", version |-> "MATERIAL_VERSION", cacheId |-> id,
     crc32 |-> Crc32(content), shaderModels |-> ShaderModels,
     content |-> content]

\* The failures createParser reports through FILAMENT_CHECK_POSTCONDITION.
MissingBackend == "the material was not built for any of the backend's supported shader languages"
CouldNotParse == "could not parse the material package"
VersionMismatch == "Material version mismatch"

PostconditionFailures == {MissingBackend, CouldNotParse, VersionMismatch}

\* MaterialDefinition::createParser: NoPanic when it returns the parser
\* (it never returns null), else the postcondition that failed.
createParser(backend, package) ==
    IF package.parse = "ERROR_MISSING_BACKEND" THEN MissingBackend
    ELSE IF backend = "NOOP" THEN NoPanic
    ELSE IF package.parse # "SUCCESS" THEN CouldNotParse
    ELSE IF package.version # "MATERIAL_VERSION" THEN VersionMismatch
    ELSE NoPanic

\* A cache id taken from the package's content instead of its header: the
\* payload, not the identifier, becomes the identity.
getCacheId_FromContent(package) ==
    IF package.cacheId = 0 THEN 0
    ELSE IF package.content = "v1" THEN 1 ELSE NumKeys

\* parser->getCacheId(&cacheId)
getCacheId(package) == package.cacheId

\* create without the crc32 test: a package whose stored crc32 does not
\* match its content becomes a definition.
create_NoCrc32Test(engine, package) ==
    IF engine.shaderModel \notin package.shaderModels
    THEN NoValue
    ELSE package.content

\* create without the shader-model test: a package built for other shader
\* models becomes a definition.
create_NoShaderModelTest(engine, package) ==
    IF engine.checkCrc32 /\ package.crc32 # Crc32(package.content)
    THEN NoValue
    ELSE package.content

\* MaterialDefinition::create: the crc32 is compared only when the feature
\* flag is set; then the engine's shader model must be among the package's;
\* a stereo type that does not fit only logs a warning.
create(engine, package) ==
    IF engine.checkCrc32 /\ package.crc32 # Crc32(package.content)
    THEN NoValue
    ELSE IF engine.shaderModel \notin package.shaderModels
         THEN NoValue
         ELSE package.content

\* The calls offered to getDefinition: good packages for every cache id and
\* content; a package without cache id; packages that do not parse, for
\* lack of a backend or otherwise, or have another version, on either
\* backend; a package with a wrong crc32, with and without the crc32 test;
\* a package built for another shader model.
Call(engine, package) == [engine |-> engine, package |-> package]

Calls ==
    {Call(DefaultEngine, GoodPackage(id, c)) : id \in Keys, c \in Values}
    \cup {Call(DefaultEngine, GoodPackage(0, "v1"))}
    \cup {Call([DefaultEngine EXCEPT !.backend = b],
               [GoodPackage(1, "v1") EXCEPT !.parse = r]) :
              b \in Backends, r \in ParseResults \ {"SUCCESS"}}
    \cup {Call([DefaultEngine EXCEPT !.backend = b],
               [GoodPackage(1, "v1") EXCEPT !.version = "other version"]) :
              b \in Backends}
    \cup {Call([DefaultEngine EXCEPT !.checkCrc32 = f],
               [GoodPackage(1, "v1") EXCEPT !.crc32 = Crc32("v2")]) :
              f \in BOOLEAN}
    \cup {Call(DefaultEngine,
               [GoodPackage(1, "v1") EXCEPT !.shaderModels = {"MOBILE"}])}

\* The package header yields a content identifier: the package parses, has
\* the expected material version and a cache id.
HeaderCarriesId(call) ==
    /\ call.package.parse = "SUCCESS"
    /\ call.package.version = "MATERIAL_VERSION"
    /\ call.package.cacheId # 0

\* The identifier in the package header, 0 when header extraction fails.
HeaderId(call) == IF HeaderCarriesId(call) THEN call.package.cacheId ELSE 0

\* The package is one the factory has to reject: the checksum is verified
\* and does not match, or the engine's shader model is not among the
\* package's.
Rejected(call) ==
    \/ call.engine.checkCrc32
           /\ call.package.crc32 # Crc32(call.package.content)
    \/ call.engine.shaderModel \notin call.package.shaderModels

\* MaterialCache::getDefinition.  `last` records the identifier in the
\* package header (id) and whether the call found no entry for it and had a
\* package the factory has to reject (rejected).
GetDefinition(call) ==
    LET engine == call.engine
        package == call.package
        parser == createParser(engine.backend, package)
        cacheId == getCacheId(package)
        r == get(mMap, cacheId, create(engine, package))
        dst == NewSlot
        op == [Op("getDefinition", 0) EXCEPT
                 !.id = HeaderId(call),
                 !.corrupt = package.crc32 # Crc32(package.content),
                 !.crcChecked = engine.checkCrc32]
    IN
    /\ Running /\ alive
    /\ UNCHANGED ext
    /\ IF parser # NoPanic
       THEN /\ panic' = parser
            /\ last' = op
            /\ UNCHANGED <<mMap, handles, alive, outstanding>>
       ELSE IF cacheId = 0
       THEN /\ last' = op
            /\ UNCHANGED <<mMap, handles, alive, panic, outstanding>>
       ELSE /\ r.hasValue =>
                   FreeSlots # {} /\ Total(outstanding) < MaxOutstanding
            /\ mMap' = r.map
            /\ handles' = IF r.hasValue
                          THEN [handles EXCEPT ![dst] = r.handle]
                          ELSE handles
            /\ outstanding' = IF r.hasValue
                              THEN [outstanding EXCEPT ![cacheId] = @ + 1]
                              ELSE outstanding
            /\ \E moved \in RelocatesBy(mMap, r.map) :
                   last' = [op EXCEPT
                              !.key = cacheId,
                              !.invoked = r.invoked,
                              !.hasValue = r.hasValue,
                              !.value = r.value, !.prev = Prev(cacheId),
                              !.hashed = HashEvaluations(
                                             mMap, cacheId,
                                             create(engine, package)),
                              !.rejected = HeaderCarriesId(call)
                                  /\ ~mMap[call.package.cacheId].present
                                  /\ Rejected(call),
                              !.moved = moved]
            /\ UNCHANGED <<alive, panic>>

Next ==
    \/ \E key \in Keys, made \in Values \cup {NoValue} : CacheGet(key, made)
    \/ \E src \in Slots : HandleMoveCtor(src)
    \/ \E dst \in Slots, src \in Slots : HandleMoveAssign(dst, src)
    \/ \E src \in Slots : HandleCopyCtor(src)
    \/ \E dst \in Slots, src \in Slots : HandleCopyAssign(dst, src)
    \/ \E h \in Slots : HandleDtor(h)
    \/ \E h \in Slots : HandleDeref(h)
    \/ ImplDtor

Spec == Init /\ [][Next]_vars

\* The definition store and the handles it gives out.
NextDefinitions ==
    \/ \E call \in Calls : GetDefinition(call)
    \/ \E src \in Slots : HandleMoveCtor(src)
    \/ \E dst \in Slots, src \in Slots : HandleMoveAssign(dst, src)
    \/ \E src \in Slots : HandleCopyCtor(src)
    \/ \E dst \in Slots, src \in Slots : HandleCopyAssign(dst, src)
    \/ \E h \in Slots : HandleDtor(h)
    \/ \E h \in Slots : HandleDeref(h)
    \/ ImplDtor

SpecDefinitions == Init /\ [][NextDefinitions]_vars

\* ------------------------------------------- program store: the actions
\* Copy assignment of Specialization: operator=(const Handle&) of the
\* embedded DefinitionHandle releases the entry of the assigned-to key and
\* acquires the entry of the assigned key.
assignKey(w, old, new) == copyKey(destroyKey(w, old), new)

SpecSlots == 1..MaxSpecs

FreeSpecSlots == {s \in SpecSlots : ~specs[s].exists}

NewSpecSlot == CHOOSE s \in FreeSpecSlots : \A t \in FreeSpecSlots : s <= t

FreeProgramSlots == {p \in Slots : ~pHandles[p].exists}

NewProgramSlot ==
    CHOOSE p \in FreeProgramSlots : \A q \in FreeProgramSlots : p <= q

\* The priority of the request that made the program cache's last lookup of
\* `key`, if that was the operation right before.
PrevPriority(key) ==
    IF last.op = "getProgram" /\ last.spec = key THEN last.priority
    ELSE "none"

\* Specialization{definition, variant, constants, {}}: the client builds
\* the Specialization `key` from one of its definition handles, which is
\* copied.
SpecializationCtor(h, key) ==
    LET w == copyKey(World(pMap, mMap), key) IN
    /\ Running /\ alive
    /\ handles[h].exists /\ HandleEq(handles[h], key.definition)
    /\ FreeSpecSlots # {}
    /\ mMap' = w.dm
    /\ panic' = w.panic
    /\ specs' = IF w.panic = NoPanic
                THEN [specs EXCEPT
                        ![NewSpecSlot] = [exists |-> TRUE, value |-> key]]
                ELSE specs
    /\ last' = Op("Specialization", 0)
    /\ UNCHANGED <<handles, alive, outstanding, pMap, pHandles, rest>>

\* ~Specialization(): the embedded DefinitionHandle is destroyed.
SpecializationDtor(s) ==
    LET key == specs[s].value
        w == destroyKey(World(pMap, mMap), key)
    IN
    /\ Running /\ alive
    /\ specs[s].exists
    /\ mMap' = w.dm
    /\ panic' = w.panic
    /\ specs' = IF w.panic = NoPanic
                THEN [specs EXCEPT ![s] = NoSpecialization]
                ELSE specs
    /\ last' = Op("~Specialization", 0)
    /\ UNCHANGED <<handles, alive, outstanding, pMap, pHandles, rest>>

\* auto r = materialCache.getProgram(specialization, priorityQueue); the
\* returned ProgramHandle ends up in a new ProgramHandle object.
\* `compiles`: the backend can compile the requested program.
GetProgram(s, priorityQueue, compiles) ==
    LET key == specs[s].value
        r == getProgram(World(pMap, mMap), key, priorityQueue, compiles)
        w == r.world
    IN
    /\ Running /\ alive
    /\ specs[s].exists
    /\ FreeProgramSlots # {}
    /\ pMap[key].present => pMap[key].referenceCount < MaxProgramRefs
    /\ pMap' = w.pm
    /\ mMap' = w.dm
    /\ panic' = w.panic
    /\ pHandles' = IF w.panic = NoPanic /\ r.hasValue
                   THEN [pHandles EXCEPT ![NewProgramSlot] = r.handle]
                   ELSE pHandles
    /\ last' = [Op("getProgram", 0) EXCEPT
                  !.spec = key, !.invoked = r.invoked,
                  !.hasValue = r.hasValue, !.value = r.value,
                  !.priority = priorityQueue,
                  !.prevPriority = PrevPriority(key),
                  !.compiled =
                      IF r.invoked
                      THEN factory(key, priorityQueue, compiles).compiled
                      ELSE "none",
                  !.compiles = compiles]
    /\ UNCHANGED <<handles, alive, outstanding, specs, rest>>

\* ProgramHandle(ProgramHandle&& rhs): mKey(rhs.mKey) copies the key, and
\* with it the embedded DefinitionHandle; rhs.mImpl = nullptr.
ProgramHandleMoveCtor(src) ==
    LET rhs == pHandles[src]
        w == copyKey(World(pMap, mMap), rhs.mKey)
    IN
    /\ Running /\ alive
    /\ rhs.exists
    /\ FreeProgramSlots # {}
    /\ mMap' = w.dm
    /\ panic' = w.panic
    /\ pHandles' = IF w.panic = NoPanic
                   THEN [pHandles EXCEPT
                           ![NewProgramSlot] =
                               ProgramHandle(rhs.mImpl, rhs.mKey, rhs.mHash),
                           ![src].mImpl = NULL]
                   ELSE pHandles
    /\ last' = Op("program move-ctor", 0)
    /\ UNCHANGED <<handles, alive, outstanding, specs, pMap, rest>>

\* ProgramHandle& operator=(ProgramHandle&& rhs): no release of the own
\* entry; mKey = rhs.mKey copy-assigns the key; rhs.mImpl = nullptr.
ProgramHandleMoveAssign(dst, src) ==
    LET self == pHandles[dst]
        rhs == pHandles[src]
        w == assignKey(World(pMap, mMap), self.mKey, rhs.mKey)
    IN
    /\ Running /\ alive
    /\ self.exists /\ rhs.exists
    /\ mMap' = w.dm
    /\ panic' = w.panic
    /\ pHandles' = IF w.panic = NoPanic
                   THEN [pHandles EXCEPT
                           ![dst] =
                               ProgramHandle(rhs.mImpl, rhs.mKey, rhs.mHash),
                           ![src].mImpl = NULL]
                   ELSE pHandles
    /\ last' = Op("program move-assign", 0)
    /\ UNCHANGED <<handles, alive, outstanding, specs, pMap, rest>>

\* ProgramHandle(const ProgramHandle& rhs): the fields are copied (the key
\* with its DefinitionHandle); if (mImpl) acquire.
ProgramHandleCopyCtor(src) ==
    LET rhs == pHandles[src]
        w1 == copyKey(World(pMap, mMap), rhs.mKey)
        w == IF rhs.mImpl # NULL
             THEN programAcquire(w1, rhs.mKey, rhs.mHash)
             ELSE w1
    IN
    /\ Running /\ alive
    /\ rhs.exists
    /\ FreeProgramSlots # {}
    /\ rhs.mImpl # NULL /\ pMap[rhs.mKey].present =>
           pMap[rhs.mKey].referenceCount < MaxProgramRefs
    /\ pMap' = w.pm
    /\ mMap' = w.dm
    /\ panic' = w.panic
    /\ pHandles' = IF w.panic = NoPanic
                   THEN [pHandles EXCEPT
                           ![NewProgramSlot] =
                               ProgramHandle(rhs.mImpl, rhs.mKey, rhs.mHash)]
                   ELSE pHandles
    /\ last' = Op("program copy-ctor", 0)
    /\ UNCHANGED <<handles, alive, outstanding, specs, rest>>

\* ProgramHandle& operator=(const ProgramHandle& rhs): if (mImpl) release
\* the own entry; if (rhs.mImpl) acquire rhs's entry; then the fields are
\* copied, mKey = rhs.mKey by the copy assignment of Specialization.
ProgramHandleCopyAssign(dst, src) ==
    LET self == pHandles[dst]
        rhs == pHandles[src]
        w1 == IF self.mImpl # NULL
              THEN programRelease(World(pMap, mMap), self.mKey, self.mHash)
              ELSE World(pMap, mMap)
        w2 == IF rhs.mImpl # NULL
              THEN programAcquire(w1, rhs.mKey, rhs.mHash)
              ELSE w1
        w == assignKey(w2, self.mKey, rhs.mKey)
    IN
    /\ Running /\ alive
    /\ self.exists /\ rhs.exists
    /\ \A k \in ProgramKeys : w.pm[k].referenceCount <= MaxProgramRefs
    /\ pMap' = w.pm
    /\ mMap' = w.dm
    /\ panic' = w.panic
    /\ pHandles' = IF w.panic = NoPanic
                   THEN [pHandles EXCEPT
                           ![dst] =
                               ProgramHandle(rhs.mImpl, rhs.mKey, rhs.mHash)]
                   ELSE pHandles
    /\ last' = Op("program copy-assign", 0)
    /\ UNCHANGED <<handles, alive, outstanding, specs, rest>>

\* ~ProgramHandle(): if (mImpl) release; then mKey is destroyed, and with
\* it the embedded DefinitionHandle.
ProgramHandleDtor(p) ==
    LET self == pHandles[p]
        w1 == IF self.mImpl # NULL
              THEN programRelease(World(pMap, mMap), self.mKey, self.mHash)
              ELSE World(pMap, mMap)
        w == destroyKey(w1, self.mKey)
    IN
    /\ Running /\ alive
    /\ self.exists
    /\ pMap' = w.pm
    /\ mMap' = w.dm
    /\ panic' = w.panic
    /\ pHandles' = IF w.panic = NoPanic
                   THEN [pHandles EXCEPT ![p] = NoProgramHandle]
                   ELSE pHandles
    /\ last' = Op("program dtor", 0)
    /\ UNCHANGED <<handles, alive, outstanding, specs, rest>>

\* The program store, the definition handles of its clients and their
\* Specializations.
NextPrograms ==
    \/ \E key \in Keys : CacheGet(key, "v1")
    \/ \E h \in Slots : HandleDtor(h)
    \/ \E h \in Slots, key \in ProgramKeys : SpecializationCtor(h, key)
    \/ \E s \in SpecSlots : SpecializationDtor(s)
    \/ \E s \in SpecSlots, q \in PriorityQueues, compiles \in BOOLEAN :
           GetProgram(s, q, compiles)
    \/ \E src \in Slots : ProgramHandleMoveCtor(src)
    \/ \E dst \in Slots, src \in Slots : ProgramHandleMoveAssign(dst, src)
    \/ \E src \in Slots : ProgramHandleCopyCtor(src)
    \/ \E dst \in Slots, src \in Slots : ProgramHandleCopyAssign(dst, src)
    \/ \E p \in Slots : ProgramHandleDtor(p)

SpecPrograms == Init /\ [][NextPrograms]_vars

\* --------------------------------------- Specialization keys, compared
\* The definition handles the compared Specializations are built from: live
\* handles of two cache instances.
CompareHandles ==
    {Handle(impl, k, Hash(k)) : impl \in {IMPL, OTHER_IMPL}, k \in Keys}

CompareInputs ==
    {Specialization(h, v, c, p) :
        h \in CompareHandles, v \in Variants, c \in ConstantLists,
        p \in PushArrays}

\* The operands held by `compare`, by side.
Sides == {"lhs", "rhs"}

\* Two Specializations are built, each from its own definition handle.
KeyDraw ==
    /\ compare = Comparison(NoSpec, NoSpec)
    /\ \E lhs \in CompareInputs, rhs \in CompareInputs :
           compare' = Comparison(lhs, rhs)
    /\ UNCHANGED <<mMap, handles, alive, panic, outstanding, last,
                   specs, pMap, pHandles, threads, material>>

\* Specialization rhs = lhs: the copy has lhs's fields, its definition
\* handle is a copy of lhs's.
KeyCopy ==
    /\ compare' = [Comparison(compare.lhs, compare.lhs) EXCEPT
                     !.copied = TRUE]
    /\ UNCHANGED <<mMap, handles, alive, panic, outstanding, last,
                   specs, pMap, pHandles, threads, material>>

\* The definition handle of one operand is moved from (Handle move
\* constructor: rhs.mImpl = nullptr; the key stays).
KeyMoveFrom(side) ==
    /\ compare[side].definition.mImpl # NULL
    /\ compare' = [compare EXCEPT ![side].definition.mImpl = NULL,
                                  !.done = FALSE, !.equal = FALSE,
                                  !.handlesEqual = FALSE,
                                  !.lhsHash = 0, !.rhsHash = 0]
    /\ UNCHANGED <<mMap, handles, alive, panic, outstanding, last,
                   specs, pMap, pHandles, threads, material>>

\* lhs == rhs, lhs.definition == rhs.definition, Hash{}(lhs), Hash{}(rhs)
KeyCompare ==
    /\ ~compare.done
    /\ compare' = [compare EXCEPT
                     !.done = TRUE,
                     !.equal = SpecializationEq(compare.lhs, compare.rhs),
                     !.handlesEqual = HandleEq(compare.lhs.definition,
                                               compare.rhs.definition),
                     !.lhsHash = SpecializationHash(compare.lhs),
                     !.rhsHash = SpecializationHash(compare.rhs)]
    /\ UNCHANGED <<mMap, handles, alive, panic, outstanding, last,
                   specs, pMap, pHandles, threads, material>>

NextKeys ==
    \/ KeyDraw
    \/ KeyCopy
    \/ \E side \in Sides : KeyMoveFrom(side)
    \/ KeyCompare

SpecKeys == Init /\ [][NextKeys]_vars

\* ------------------------------------------- get called by two threads
\* Nothing in Cache synchronises threads: two calls of get run their steps
\* in any interleaving.
InsideGet(t) == threads[t].pc \in {"find", "count", "factory", "insert"}

\* Thread t calls get(key, factory): size_t hash = Hash{}(key).
ThreadCall(t, key, made) ==
    LET racing == {u \in Threads \ {t} : InsideGet(u)} IN
    /\ Running /\ alive
    /\ threads[t].pc = "idle"
    /\ threads' = [u \in Threads |->
                      IF u = t
                      THEN [IdleThread EXCEPT
                              !.pc = "find", !.key = key, !.made = made,
                              !.absent = ~mMap[key].present,
                              !.raced = threads[t].raced \/ racing # {}]
                      ELSE IF u \in racing
                           THEN [threads[u] EXCEPT !.raced = TRUE]
                           ELSE threads[u]]
    /\ UNCHANGED <<mMap, handles, alive, panic, outstanding, last,
                   specs, pMap, pHandles, compare, material>>

\* The hit path that returns the handle without counting it.
ThreadFind_HitNoCount(t) ==
    LET self == threads[t] IN
    /\ Running /\ self.pc = "find"
    /\ threads' = [threads EXCEPT
                     ![t].pc = IF find(mMap, self.key, Hash(self.key))
                               THEN "done" ELSE "factory",
                     ![t].hasValue = find(mMap, self.key, Hash(self.key))]
    /\ UNCHANGED <<mMap, handles, alive, panic, outstanding, last,
                   specs, pMap, pHandles, compare, material>>

\* auto it = mMap.find(key, hash); on a hit the thread goes on to
\* referenceCount++, whose first half is the read of the count.
ThreadFind(t) ==
    LET self == threads[t] IN
    /\ Running /\ self.pc = "find"
    /\ threads' = [threads EXCEPT
                     ![t].pc = IF find(mMap, self.key, Hash(self.key))
                               THEN "count" ELSE "factory",
                     ![t].seen = mMap[self.key].referenceCount]
    /\ UNCHANGED <<mMap, handles, alive, panic, outstanding, last,
                   specs, pMap, pHandles, compare, material>>

\* it.value().referenceCount++ writes back the count read plus one, and
\* the handle is returned.  The increment is not atomic: a change another
\* thread made to the count since the read is overwritten, and when the
\* entry was erased since, the write goes to a slot the map no longer has.
ThreadCount(t) ==
    LET self == threads[t] IN
    /\ Running /\ self.pc = "count"
    /\ mMap' = IF mMap[self.key].present
               THEN [mMap EXCEPT ![self.key].referenceCount = self.seen + 1]
               ELSE mMap
    /\ threads' = [threads EXCEPT ![t].pc = "done", ![t].hasValue = TRUE]
    /\ UNCHANGED <<handles, alive, panic, outstanding, last,
                   specs, pMap, pHandles, compare, material>>

\* std::optional<T> value = factory(); without a value get returns
\* std::nullopt.
ThreadFactory(t) ==
    LET self == threads[t] IN
    /\ Running /\ self.pc = "factory"
    /\ threads' = [threads EXCEPT
                     ![t].invoked = TRUE,
                     ![t].pc = IF self.made # NoValue THEN "insert"
                               ELSE "done"]
    /\ UNCHANGED <<mMap, handles, alive, panic, outstanding, last,
                   specs, pMap, pHandles, compare, material>>

\* mMap.insert({key, Entry{1, value}}), and the handle is returned.  When
\* another thread has inserted the key in the meantime, insert leaves that
\* entry as it is; the unsynchronised write can also replace it.
ThreadInsert(t) ==
    LET self == threads[t] IN
    /\ Running /\ self.pc = "insert"
    /\ \/ /\ ~mMap[self.key].present
          /\ mMap' = [mMap EXCEPT ![self.key] = Entry(1, self.made)]
       \/ /\ mMap[self.key].present
          /\ mMap' \in {mMap,
                        [mMap EXCEPT ![self.key] = Entry(1, self.made)]}
    /\ threads' = [threads EXCEPT ![t].pc = "done", ![t].hasValue = TRUE]
    /\ UNCHANGED <<handles, alive, panic, outstanding, last,
                   specs, pMap, pHandles, compare, material>>

\* The thread drops what get returned: ~Handle() releases the entry.  A
\* release while another thread is inside get overlaps that call.
ThreadRelease(t) ==
    LET self == threads[t]
        racing == {u \in Threads \ {t} : InsideGet(u)}
        r == IF self.hasValue
             THEN release(mMap, self.key, Hash(self.key))
             ELSE Ok(mMap)
    IN
    /\ Running /\ self.pc = "done"
    /\ mMap' = r.map
    /\ panic' = r.panic
    /\ threads' = IF r.panic = NoPanic
                  THEN [u \in Threads |->
                          IF u = t
                          THEN [IdleThread EXCEPT
                                  !.raced = self.raced \/ racing # {}]
                          ELSE IF u \in racing
                               THEN [threads[u] EXCEPT !.raced = TRUE]
                               ELSE threads[u]]
                  ELSE threads
    /\ UNCHANGED <<handles, alive, outstanding, last,
                   specs, pMap, pHandles, compare, material>>

NextThreads ==
    \/ \E t \in Threads, key \in Keys, made \in Values \cup {NoValue} :
           ThreadCall(t, key, made)
    \/ \E t \in Threads : ThreadFind(t)
    \/ \E t \in Threads : ThreadCount(t)
    \/ \E t \in Threads : ThreadFactory(t)
    \/ \E t \in Threads : ThreadInsert(t)
    \/ \E t \in Threads : ThreadRelease(t)

SpecThreads == Init /\ [][NextThreads]_vars

\* ------------------------------------------- a MaterialDefinition object
\* MaterialDefinition::create ends in the constructor, which reads the
\* package through the parser and runs processBlendingMode.
MaterialCtor ==
    /\ Running /\ ~material.exists
    /\ \E package \in ParsedPackages :
           material' = MaterialDefinition(package)
    /\ UNCHANGED <<mMap, handles, alive, panic, outstanding, last,
                   specs, pMap, pHandles, threads, compare>>

\* size_t n = definition.getParameters(parameters, count) on an array of
\* ArraySize slots that nothing has been written to.
GetParameters(count) ==
    LET r == getParameters(material, NoCall.parameters, count) IN
    /\ Running /\ material.exists
    /\ material' = [material EXCEPT
                      !.call = [made |-> TRUE, count |-> count,
                                ret |-> r.ret, parameters |-> r.parameters]]
    /\ UNCHANGED <<mMap, handles, alive, panic, outstanding, last,
                   specs, pMap, pHandles, threads, compare>>

NextMaterial ==
    \/ MaterialCtor
    \/ \E count \in 0..ArraySize : GetParameters(count)

SpecMaterial == Init /\ [][NextMaterial]_vars

\* ------------------------------------------------------------ vocabulary
FactoryResults == Values \cup {NoValue}

\* The live non-empty handles whose key is k.
LiveHandles(k) ==
    {s \in Slots : handles[s].exists /\ handles[s].mImpl # NULL
                    /\ handles[s].mKey = k}

LiveCount(k) == Cardinality(LiveHandles(k))

NonEmpty(s) == handles[s].exists /\ handles[s].mImpl # NULL

\* -------------------------------------------------------- type invariant
TypeOK ==
    /\ \A k \in Keys : mMap[k].present => mMap[k].referenceCount \in Nat
    /\ \A s \in Slots : handles[s].mImpl \in {NULL, IMPL}
    /\ alive \in BOOLEAN
    /\ panic \in {NoPanic, NullImpl} \cup PreconditionFailures
                   \cup PostconditionFailures
    /\ Total(outstanding) \in 0..MaxOutstanding

\* ---------------------------------------------------------------- claims

\* C1: at most one instance.  A get(K, f) made while a handle for K is
\* alive returns a handle to K's entry and the value already stored there,
\* and does not call the factory; the get that finds no entry (the first
\* one) is the only one that calls it.
C1_AtMostOneInstance ==
    [][last'.op = "get" =>
       \A key \in Keys, made \in FactoryResults :
          (last'.key = key /\ CacheGet(key, made)) =>
              /\ LiveCount(key) >= 1 =>
                     /\ ~last'.invoked
                     /\ last'.hasValue
                     /\ last'.value = mMap[key].value
                     /\ mMap'[key].value = mMap[key].value
                     /\ handles'[NewSlot] = Handle(IMPL, key, Hash(key))
              /\ ~mMap[key].present => last'.invoked]_vars

\* C1 witness: two handles for one key are alive and the get that returned
\* the second one did not call the factory.
C1_Witness ==
    /\ last.op = "get" /\ last.hasValue /\ ~last.invoked
    /\ LiveCount(last.key) = 2
    /\ mMap[last.key].value = last.value

\* C2: every entry's referenceCount equals the number of live non-empty
\* handles whose key is the entry's key.
C2_RefCountAccounting ==
    \A k \in Keys :
        mMap[k].present => mMap[k].referenceCount = LiveCount(k)

\* C3: for every live non-empty handle the entry is present, and the
\* precondition of at() ("Cache is somehow missing entry") never fails.
C3_NoPrematureEviction ==
    /\ panic # MissingEntry
    /\ \A s \in Slots : NonEmpty(s) => mMap[handles[s].mKey].present

\* C4: no entry with referenceCount 0 is ever observable: every entry in
\* the map has referenceCount >= 1, because the release that takes the count
\* to 0 erases the entry in the same call.
C4_EntryPresence ==
    \A k \in Keys : mMap[k].present => mMap[k].referenceCount >= 1

\* C4 witness: a destructor released the last reference of a key and the
\* entry is gone, while another entry is still there.
C4_Witness ==
    /\ last.op = "dtor" /\ last.key \in Keys
    /\ ~mMap[last.key].present
    /\ \E k \in Keys : mMap[k].present

\* C5: while more handles have been acquired for K than released, K's entry
\* is present and get(K, f) succeeds without calling f; once as many have
\* been released as acquired, the entry is gone, and the next get(K, f)
\* calls f and, if f builds a value, creates an entry with referenceCount 1.
C5_RefCountOverTime ==
    [][/\ \A k \in Keys : mMap'[k].present <=> outstanding'[k] >= 1
       /\ last'.op = "get" =>
          \A key \in Keys, made \in FactoryResults :
              (last'.key = key /\ CacheGet(key, made)) =>
                  IF outstanding[key] >= 1
                  THEN /\ last'.hasValue /\ ~last'.invoked
                       /\ mMap'[key].present
                  ELSE /\ last'.invoked
                       /\ made # NoValue =>
                              /\ last'.hasValue
                              /\ mMap'[key] = Entry(1, made)]_vars

\* C5 witness: the last handle of a key was destroyed, which erased the
\* entry, and the get right after it called the factory and created the
\* entry again with referenceCount 1.
C5_Witness ==
    /\ last.op = "get" /\ last.prev = "evicted"
    /\ last.invoked /\ last.hasValue
    /\ mMap[last.key].present /\ mMap[last.key].referenceCount = 1

\* C6: a get that misses and whose factory returns no value returns no
\* result, issues no handle and leaves the map as it was.
C6_FailedConstructionUnchanged ==
    [][\A key \in Keys :
          (last'.op = "get" /\ last'.key = key /\ ~mMap[key].present
               /\ CacheGet(key, NoValue)) =>
              /\ ~last'.hasValue
              /\ mMap' = mMap
              /\ handles' = handles
              /\ panic' = panic /\ alive' = alive]_vars

\* C6 witness: a get has just failed while the entry of another key, with
\* its handle, is in the cache.
C6_Witness ==
    /\ last.op = "get" /\ last.invoked /\ ~last.hasValue
    /\ ~mMap[last.key].present
    /\ \E k \in Keys : k # last.key /\ mMap[k].present /\ LiveCount(k) >= 1

\* C7: failures are not cached.  After a get(K, f) whose factory built
\* nothing there is no entry for K, and a get(K, g) right after it, with a
\* factory that builds a value, calls g and returns a handle to a new entry
\* with referenceCount 1 that holds g's value.
C7_FailuresNotCached ==
    [][/\ (last'.op = "get" /\ last'.invoked /\ ~last'.hasValue) =>
              ~mMap'[last'.key].present
       /\ \A key \in Keys, made \in Values :
              (Prev(key) = "failed" /\ last'.op = "get"
                   /\ CacheGet(key, made)) =>
                  /\ last'.invoked /\ last'.hasValue
                  /\ last'.value = made
                  /\ mMap'[key] = Entry(1, made)
                  /\ handles'[NewSlot] = Handle(IMPL, key, Hash(key))]_vars

\* C7 witness: a get succeeded right after a failed get for the same key.
C7_Witness ==
    /\ last.op = "get" /\ last.prev = "failed"
    /\ last.invoked /\ last.hasValue
    /\ mMap[last.key] = Entry(1, last.value)

\* C8: move-assigning handle b into a non-empty handle a releases a's old
\* target (its count goes down by one, the entry is erased at zero), leaves
\* a referencing b's former key, and leaves b empty.
C8_MoveAssignReleases ==
    [][\A a \in Slots, b \in Slots :
          (a # b /\ NonEmpty(a) /\ NonEmpty(b) /\ HandleMoveAssign(a, b)) =>
              /\ mMap' = release(mMap, handles[a].mKey, handles[a].mHash).map
              /\ handles'[a] = handles[b]
              /\ handles'[b].mImpl = NULL]_vars

\* C9: copy-assigning to a live handle itself, or a copy that references the
\* same key, ends without a fatal failure and leaves the entry present with
\* its referenceCount unchanged.
C9_SelfAssignIdempotent ==
    [][\A a \in Slots, b \in Slots :
          (NonEmpty(a) /\ NonEmpty(b) /\ handles[a].mKey = handles[b].mKey
               /\ HandleCopyAssign(a, b)) =>
              /\ panic' = NoPanic
              /\ mMap' = mMap]_vars

\* C10: when every handle object has been destroyed the map is empty, and
\* destroying the cache succeeds silently if no live non-empty handle exists
\* and fails with "Freed a non-empty Cache" if one does.
C10_Teardown ==
    [][/\ (\A s \in Slots : ~handles'[s].exists) =>
              (\A k \in Keys : ~mMap'[k].present)
       /\ ImplDtor =>
              IF \A s \in Slots : ~NonEmpty(s)
              THEN alive' = FALSE /\ panic' = NoPanic
              ELSE panic' = FreedNonEmpty]_vars

\* C11: copy safety.  Copy-constructing from a live handle for key K raises
\* K's referenceCount by exactly one, gives a handle equal to the original
\* and leaves the original as it was; destroying a handle for K right after
\* that lowers the count by exactly one, which is the map from before the
\* copy, and a handle for K is still there and its lookup succeeds.
C11_CopySafety ==
    [][/\ last'.op = "copy-ctor" =>
          \A src \in Slots :
              (NonEmpty(src) /\ HandleCopyCtor(src)) =>
                  /\ panic' = NoPanic
                  /\ mMap' = [mMap EXCEPT
                                ![handles[src].mKey].referenceCount = @ + 1]
                  /\ handles'[NewSlot] = handles[src]
                  /\ handles'[src] = handles[src]
       /\ (last'.op = "dtor" /\ last.op = "copy-ctor") =>
          \A h \in Slots :
              (NonEmpty(h) /\ last.key = handles[h].mKey
                   /\ HandleDtor(h)) =>
                  /\ panic' = NoPanic
                  /\ mMap' = [mMap EXCEPT
                                ![handles[h].mKey].referenceCount = @ - 1]
                  /\ mMap'[handles[h].mKey].referenceCount >= 1
                  /\ \E s \in Slots \ {h} :
                         /\ handles'[s] = handles[h]
                         /\ at(mMap', handles'[s].mKey, handles'[s].mHash)
                                = NoPanic]_vars

\* C11 witness: a handle for a key was copied, one of the two was destroyed
\* right after, and the entry is still there with a live handle.
C11_Witness ==
    /\ last.op = "dtor" /\ last.prev = "copied"
    /\ mMap[last.key].present
    /\ LiveCount(last.key) >= 1

\* C12: move safety.  Move-constructing from a live handle changes no entry
\* and no referenceCount: the new handle holds what the source held and the
\* source is left empty; destroying an empty handle changes nothing in the
\* cache.
C12_MoveSafety ==
    [][/\ last'.op = "move-ctor" =>
          \A src \in Slots :
              (NonEmpty(src) /\ HandleMoveCtor(src)) =>
                  /\ panic' = NoPanic
                  /\ mMap' = mMap
                  /\ handles'[NewSlot] = handles[src]
                  /\ handles'[src].exists /\ handles'[src].mImpl = NULL
       /\ last'.op = "dtor" =>
          \A h \in Slots :
              (handles[h].exists /\ handles[h].mImpl = NULL
                   /\ HandleDtor(h)) =>
                  /\ panic' = NoPanic
                  /\ mMap' = mMap
                  /\ outstanding' = outstanding
                  /\ alive' = alive
                  /\ \A s \in Slots \ {h} : handles'[s] = handles[s]]_vars

\* C12 witness: a live handle was move-constructed from, the emptied source
\* was destroyed right after, and the entry is there with count 1 and the
\* one handle that took it over.
C12_Witness ==
    /\ last.op = "dtor" /\ last.prev = "moved-from" /\ last.key = 0
    /\ \E k \in Keys : mMap[k].referenceCount = 1 /\ LiveCount(k) = 1

\* The map after one handle for key k went away: the count one lower, the
\* entry erased when that makes it zero.
OneFewer(m, k) ==
    IF m[k].referenceCount = 1 THEN [m EXCEPT ![k] = NoEntry]
    ELSE [m EXCEPT ![k].referenceCount = @ - 1]

\* C13: copy-assignment between different keys.  a = b with a on K1 and b
\* on K2, K1 # K2, takes one off K1's referenceCount (erasing the entry at
\* zero) and adds one to K2's, leaves a referencing K2 and b untouched; with
\* a empty only the increment happens, with b empty only the decrement and
\* a ends up empty.
C13_CopyAssignDifferentKeys ==
    [][last'.op = "copy-assign" =>
       \A a \in Slots, b \in Slots :
          (handles[a].exists /\ handles[b].exists
               /\ a # b /\ KeyOf(handles[a]) # KeyOf(handles[b])
               /\ last'.old = KeyOf(handles[a])
               /\ last'.key = KeyOf(handles[b])
               /\ HandleCopyAssign(a, b)) =>
              LET K1 == handles[a].mKey
                  K2 == handles[b].mKey
              IN
              /\ panic' = NoPanic
              /\ handles'[b] = handles[b]
              /\ NonEmpty(a) /\ NonEmpty(b) =>
                     /\ mMap' = [OneFewer(mMap, K1) EXCEPT
                                   ![K2].referenceCount = @ + 1]
                     /\ handles'[a] = handles[b]
              /\ ~NonEmpty(a) /\ NonEmpty(b) =>
                     /\ mMap' = [mMap EXCEPT ![K2].referenceCount = @ + 1]
                     /\ handles'[a] = handles[b]
              /\ NonEmpty(a) /\ ~NonEmpty(b) =>
                     /\ mMap' = OneFewer(mMap, K1)
                     /\ handles'[a].exists /\ handles'[a].mImpl = NULL]_vars

\* C13 witness: the last handle for one key was copy-assigned a handle for
\* another key; the first key's entry is gone and the second key has two
\* handles and count 2.
C13_Witness ==
    /\ last.op = "copy-assign" /\ last.old # 0 /\ last.key # 0
    /\ last.old # last.key
    /\ ~mMap[last.old].present
    /\ mMap[last.key].referenceCount = 2 /\ LiveCount(last.key) = 2

\* C14: get on a hit.  When an entry for K is present, get(K, f) raises K's
\* referenceCount by exactly one, returns a new handle for K with the value
\* stored in the entry, does not call f, and neither adds nor removes an
\* entry.
C14_GetHit ==
    [][last'.op = "get" =>
       \A key \in Keys, made \in FactoryResults :
          (last'.key = key /\ mMap[key].present
               /\ CacheGet(key, made)) =>
              /\ panic' = NoPanic
              /\ mMap' = [mMap EXCEPT ![key].referenceCount = @ + 1]
              /\ ~last'.invoked
              /\ last'.hasValue /\ last'.value = mMap[key].value
              /\ handles'[NewSlot] = Handle(IMPL, key, Hash(key))
              /\ \A s \in Slots \ {NewSlot} : handles'[s] = handles[s]
              /\ \A k \in Keys : mMap'[k].present = mMap[k].present]_vars

\* C14 witness: a get found the entry of its key with count 1 and returned
\* a handle and the stored value without calling the factory; the count is
\* 2 now.
C14_Witness ==
    /\ last.op = "get" /\ ~last.invoked /\ last.hasValue
    /\ mMap[last.key].referenceCount = 2
    /\ LiveCount(last.key) >= 1
    /\ last.value = mMap[last.key].value
    /\ \E s \in Slots : handles[s] = Handle(IMPL, last.key, Hash(last.key))

\* C15: get on a successful miss.  When no entry for K is present and f
\* returns a value, get(K, f) inserts an entry for K with referenceCount 1
\* holding that value, returns a handle for K and the value, and leaves the
\* entry and the count of every other key as they were.
C15_GetMissSuccess ==
    [][last'.op = "get" =>
       \A key \in Keys, made \in Values :
          (last'.key = key /\ ~mMap[key].present
               /\ CacheGet(key, made)) =>
              /\ panic' = NoPanic
              /\ mMap' = [mMap EXCEPT ![key] = Entry(1, made)]
              /\ \A k \in Keys \ {key} : mMap'[k] = mMap[k]
              /\ last'.invoked
              /\ last'.hasValue /\ last'.value = made
              /\ handles'[NewSlot] = Handle(IMPL, key, Hash(key))
              /\ \A s \in Slots \ {NewSlot} : handles'[s] = handles[s]]_vars

\* C15 witness: a get built and inserted the entry of its key while the
\* entry of another key, with its handle, was there and stayed.
C15_Witness ==
    /\ last.op = "get" /\ last.invoked /\ last.hasValue
    /\ mMap[last.key] = Entry(1, last.value)
    /\ \E k \in Keys \ {last.key} :
           mMap[k].referenceCount = 1 /\ LiveCount(k) = 1

\* C16: a lookup (operator*) on a handle that a move has emptied ends in a
\* reported fatal precondition failure; it neither returns a value nor goes
\* on with the null back-reference.
C16_MovedFromLookupFatal ==
    [][\A h \in Slots :
          (last'.op = "deref" /\ handles[h].exists
               /\ handles[h].mImpl = NULL /\ HandleDeref(h)) =>
              /\ panic' \in PreconditionFailures
              /\ ~last'.hasValue]_vars

\* C17: storage stability.  The entry of a key is not moved to another
\* storage slot by the insertion or the erasure of another key while a
\* handle for the key is alive, so the value reference get returned keeps
\* denoting it.
C17_StorageStability ==
    \A k \in last.moved : LiveCount(k) = 0

\* C18: definition store identity.  While a handle for identifier C is
\* alive, a getDefinition whose package header carries C returns a handle
\* to C's entry and the definition stored there without running the
\* factory, whatever the rest of the package is; a getDefinition for C
\* leaves the entries of the other identifiers alone and any handle it
\* returns is one for C.
C18_DefinitionIdentity ==
    [][(last'.op = "getDefinition" /\ last'.id # 0) =>
          LET C == last'.id IN
          /\ panic' = NoPanic
          /\ LiveCount(C) >= 1 =>
                 /\ ~last'.invoked
                 /\ last'.hasValue
                 /\ last'.value = mMap[C].value
                 /\ mMap'[C].value = mMap[C].value
                 /\ handles'[NewSlot] = Handle(IMPL, C, Hash(C))
          /\ \A k \in Keys \ {C} : mMap'[k] = mMap[k]
          /\ last'.hasValue =>
                 /\ last'.key = C
                 /\ handles'[NewSlot] = Handle(IMPL, C, Hash(C))
                 /\ mMap'[C].value = last'.value]_vars

\* C18 witness: two handles for one identifier are alive, the second one
\* returned by a getDefinition that did not run the factory and returned
\* the stored definition.
C18_Witness ==
    /\ last.op = "getDefinition" /\ last.hasValue /\ ~last.invoked
    /\ last.id = last.key
    /\ LiveCount(last.key) = 2
    /\ mMap[last.key].value = last.value

\* C19: malformed packages are recoverable.  A getDefinition whose header
\* extraction fails (the package does not parse, for lack of a matching
\* backend or otherwise, has another material version, or has no cache id)
\* returns no result, leaves the definition cache as it was and does not
\* end the process.
C19_MalformedRecoverable ==
    [][(last'.op = "getDefinition" /\ last'.id = 0) =>
          /\ panic' = NoPanic
          /\ ~last'.hasValue
          /\ mMap' = mMap
          /\ handles' = handles]_vars

\* C20: validation failures are not cached.  A getDefinition that finds no
\* entry for the package's identifier and whose factory has to reject the
\* package returns no result and leaves the cache without an entry for the
\* identifier; the getDefinition for the same identifier that comes right
\* after it runs the factory again and, unless that one has to reject its
\* package too, returns the new definition.
C20_ValidationFailuresNotCached ==
    [][(last'.op = "getDefinition" /\ last'.id # 0) =>
          LET C == last'.id IN
          /\ last'.rejected =>
                 /\ panic' = NoPanic
                 /\ last'.invoked /\ ~last'.hasValue
                 /\ mMap' = mMap /\ ~mMap'[C].present
                 /\ handles' = handles
          /\ (last.op = "getDefinition" /\ last.rejected /\ last.id = C) =>
                 /\ last'.invoked
                 /\ ~last'.rejected =>
                        /\ last'.hasValue
                        /\ mMap'[C] = Entry(1, last'.value)
                        /\ handles'[NewSlot] = Handle(IMPL, C, Hash(C))]_vars

\* C20 witness: a getDefinition whose factory rejected the package was
\* followed by one for the same identifier that built the definition and
\* inserted it.
C20_Witness ==
    /\ last.op = "getDefinition" /\ last.prev = "failed"
    /\ last.invoked /\ last.hasValue /\ ~last.rejected
    /\ last.id = last.key
    /\ mMap[last.key] = Entry(1, last.value)

\* -------------------------------------------------- the program store
\* The live non-empty ProgramHandle objects whose key equals `key`.
LiveProgramHandles(key) ==
    {p \in Slots : pHandles[p].exists /\ pHandles[p].mImpl # NULL
                    /\ SpecializationEq(pHandles[p].mKey, key)}

\* C21: getProgram yields exactly one program entry per distinct
\* Specialization.  A request made while a handle for an equal
\* Specialization is alive, whatever its priority queue, runs no factory
\* and returns a handle to that entry: its count goes up by one, its program
\* stays, and the new handle carries the requested key.  A request for a
\* Specialization without entry makes the entry, with count 1.  Either
\* way, the entries of unequal Specializations are left as they were.
C21_ProgramIdentity ==
    [][last'.op = "getProgram" /\ panic' = NoPanic =>
         \A s \in SpecSlots, q \in PriorityQueues, compiles \in BOOLEAN :
             GetProgram(s, q, compiles) =>
                 LET key == specs[s].value
                     new == pHandles'[NewProgramSlot]
                 IN
                 /\ LiveProgramHandles(key) # {} =>
                        /\ pMap[key].present
                        /\ ~last'.invoked
                        /\ pMap'[key] =
                               [pMap[key] EXCEPT !.referenceCount = @ + 1]
                 /\ ~pMap[key].present =>
                        /\ last'.invoked
                        /\ pMap'[key].present
                        /\ pMap'[key].referenceCount = 1
                 /\ new.exists /\ new.mImpl = PROGRAM_IMPL
                 /\ SpecializationEq(new.mKey, key)
                 /\ \A other \in ProgramKeys :
                        ~SpecializationEq(other, key) =>
                            pMap'[other] = pMap[other]]_vars

\* A request found the entry that the request right before it, with the
\* other priority queue, had made for the same Specialization.
C21_Witness ==
    /\ last.op = "getProgram" /\ ~last.invoked /\ last.hasValue
    /\ last.prevPriority \in PriorityQueues \ {last.priority}
    /\ pMap[last.spec].referenceCount = 2
    /\ Cardinality(LiveProgramHandles(last.spec)) = 2

\* C26: on a getProgram miss the factory calls the program compiler for
\* the requested specialization and hands it the request's priority queue;
\* on a hit the compiler is not called.
\* It fails on every miss: the factory returns an empty Program and calls
\* no compiler.
C26_CompileOnMiss ==
    last.op = "getProgram" =>
        IF last.invoked
        THEN last.compiled = last.priority
        ELSE last.compiled = "none"

\* C27: when the backend cannot compile the program of a specialization,
\* getProgram returns no value and the program cache holds no entry for
\* it (so that a later request compiles again).
\* It fails on the first such request: the factory does not compile, and
\* its empty Program is stored and returned.
C27_CompileFailureNotCached ==
    last.op = "getProgram" /\ ~last.compiles =>
        ~last.hasValue /\ ~pMap[last.spec].present

\* The content identifier of the definition a Specialization embeds a
\* handle for.
DefinitionOf(key) == key.definition.mKey

\* The Specialization objects, program entries and ProgramHandle objects
\* that embed a definition handle for content identifier d.
SpecsOf(d) ==
    {s \in SpecSlots : specs[s].exists /\ DefinitionOf(specs[s].value) = d}

EntriesOf(d) ==
    {key \in ProgramKeys : pMap[key].present /\ DefinitionOf(key) = d}

ProgramHandlesOf(d) ==
    {p \in Slots : pHandles[p].exists /\ DefinitionOf(pHandles[p].mKey) = d}

\* C22: in every reachable state, if the program cache holds an entry, or
\* a ProgramHandle object exists, whose Specialization key embeds a
\* definition handle for content identifier d, then the definition cache
\* contains d's entry, with referenceCount >= 1.
\* It holds while the process runs, and fails where a ProgramHandle whose
\* key holds the last claim on d is assigned to itself: the assignment of
\* the embedded handle releases d before it acquires it.
C22_DefinitionOutlivesPrograms ==
    \A d \in Keys :
        EntriesOf(d) # {} \/ ProgramHandlesOf(d) # {} =>
            mMap[d].present /\ mMap[d].referenceCount >= 1

\* C23: once every ProgramHandle object and every Specialization object
\* that embeds a handle for definition d has been destroyed, the program
\* cache holds no entry whose key embeds d, and d's referenceCount is the
\* number of definition handles the clients hold directly (with none, d's
\* entry is gone).
\* It fails after a ProgramHandle was move-assigned over: its entry is
\* never released, and the key of that entry keeps its claim on d.
C23_NoOverRelease ==
    \A d \in Keys :
        Running /\ ProgramHandlesOf(d) = {} /\ SpecsOf(d) = {} =>
            /\ EntriesOf(d) = {}
            /\ mMap[d].present <=> LiveCount(d) >= 1
            /\ mMap[d].present => mMap[d].referenceCount = LiveCount(d)

\* ------------------------------------------------- Specialization keys
\* C24: two Specializations are equal iff their definition handles belong
\* to the same cache and have the same key, their variants are equal, and
\* their specialization constants and the push constants of every stage
\* are the same sequences; and two equal Specializations have the same
\* hash, whether one was made as a copy of the other or each was built from
\* its own definition handle.
C24_EqualityAndHash ==
    compare.done =>
        LET lhs == compare.lhs
            rhs == compare.rhs
        IN
        /\ compare.equal <=>
               /\ lhs.definition.mImpl = rhs.definition.mImpl
               /\ lhs.definition.mKey = rhs.definition.mKey
               /\ lhs.variant = rhs.variant
               /\ lhs.specializationConstants = rhs.specializationConstants
               /\ lhs.pushConstants = rhs.pushConstants
        /\ compare.equal => compare.lhsHash = compare.rhsHash

\* Two Specializations, each built from its own live definition handle,
\* with constants and push constants, were compared: they are equal and
\* have the same hash.
C24_Witness ==
    /\ compare.done /\ ~compare.copied
    /\ compare.lhs.definition.mImpl = IMPL
    /\ compare.lhs.specializationConstants # <<>>
    /\ compare.lhs.pushConstants # NoPushConstants
    /\ compare.equal
    /\ compare.lhsHash = compare.rhsHash

\* b has the elements of a in another order, and differs from a at some
\* position.
IsPermutation(a, b) ==
    /\ Len(a) = Len(b)
    /\ \A x \in {a[i] : i \in 1..Len(a)} \cup {b[i] : i \in 1..Len(b)} :
           Cardinality({i \in 1..Len(a) : a[i] = x})
               = Cardinality({i \in 1..Len(b) : b[i] = x})
    /\ \E i \in 1..Len(a) : a[i] # b[i]

\* lhs and rhs differ only by a permutation of their specialization
\* constants, or of the push constants of one stage.
DifferByPermutation(lhs, rhs) ==
    /\ lhs.definition = rhs.definition
    /\ lhs.variant = rhs.variant
    /\ \/ /\ IsPermutation(lhs.specializationConstants,
                           rhs.specializationConstants)
          /\ lhs.pushConstants = rhs.pushConstants
       \/ /\ lhs.specializationConstants = rhs.specializationConstants
          /\ \E stage \in DOMAIN lhs.pushConstants :
                 /\ IsPermutation(lhs.pushConstants[stage],
                                  rhs.pushConstants[stage])
                 /\ \A other \in DOMAIN lhs.pushConstants \ {stage} :
                        lhs.pushConstants[other] = rhs.pushConstants[other]

\* The call of Impl::get for `key` on a program cache that holds exactly
\* an entry for `held`.
GetWhileHolding(held, key) ==
    programGet(World([k \in {held, key} |->
                         IF k = held THEN Entry(1, NullProgram) ELSE NoEntry],
                     [k \in Keys |-> Entry(1, "v1")]),
               key, NullProgram)

\* C25: two Specializations that differ only by a permutation of their
\* specialization constants, or of the push constants of a stage, with a
\* position that holds different elements, compare unequal, and occupy
\* distinct entries of the program cache: with an entry for one of them in
\* the map, get for the other finds nothing, runs the factory and leaves
\* two entries.
C25_OrderSensitiveKeys ==
    compare.done /\ DifferByPermutation(compare.lhs, compare.rhs) =>
        /\ ~compare.equal
        /\ LET r == GetWhileHolding(compare.lhs, compare.rhs) IN
           /\ r.invoked
           /\ r.world.pm[compare.lhs].present
           /\ r.world.pm[compare.rhs].present
           /\ r.world.pm[compare.lhs].referenceCount = 1

\* Two Specializations with the same constants in another order were
\* compared, and are unequal.
C25_Witness ==
    /\ compare.done /\ ~compare.equal
    /\ compare.lhs.definition.mImpl = IMPL
    /\ DifferByPermutation(compare.lhs, compare.rhs)
    /\ compare.lhs.specializationConstants = ConstantsInOrder
    /\ compare.rhs.specializationConstants = ConstantsPermuted

\* C30: two live handles compare equal iff they belong to the same cache
\* and have equal keys, whether one is a copy of the other or not; a
\* moved-from handle (null mImpl) does not compare equal to a live handle
\* with the same key.
C30_HandleEquality ==
    compare.done =>
        LET a == compare.lhs.definition
            b == compare.rhs.definition
        IN
        /\ a.mImpl # NULL /\ b.mImpl # NULL =>
               (compare.handlesEqual <=>
                    a.mImpl = b.mImpl /\ a.mKey = b.mKey)
        /\ (a.mImpl = NULL) # (b.mImpl = NULL) /\ a.mKey = b.mKey =>
               ~compare.handlesEqual

\* A moved-from handle was compared with a live handle that has the same
\* key, and they are unequal.
C30_Witness ==
    /\ compare.done /\ ~compare.handlesEqual
    /\ compare.lhs.definition.mImpl = NULL
    /\ compare.rhs.definition.mImpl = IMPL
    /\ compare.lhs.definition.mKey = compare.rhs.definition.mKey

\* ---------------------------------------------------- concurrent get
\* Threads t and u hold the handles their calls of get returned for the
\* same key.
BothHold(t, u) ==
    /\ t # u
    /\ threads[t].pc = "done" /\ threads[t].hasValue
    /\ threads[u].pc = "done" /\ threads[u].hasValue
    /\ threads[t].key = threads[u].key

\* Exactly one of the calls of t and u ran its factory, and the entry of
\* their key has referenceCount 2.
OneInstance(t, u) ==
    /\ threads[t].invoked # threads[u].invoked
    /\ mMap[threads[t].key].present
    /\ mMap[threads[t].key].referenceCount = 2

\* C28 as stated: when two threads call get(K, f) for the same absent key
\* with their find, factory and insert steps interleaving, the factory runs
\* exactly once and both handles reference one entry with referenceCount 2.
C28_ConcurrentOneInstance ==
    \A t \in Threads, u \in Threads :
        Running /\ BothHold(t, u) /\ threads[t].absent /\ threads[u].absent
            => OneInstance(t, u)

\* C28, amended: when no call of get and no release by either thread has
\* overlapped a call of get by another thread (each starts after the other
\* has returned, as under external synchronisation), and the key was absent
\* when the first of the two calls began, the factory runs exactly once and
\* both handles reference one entry with referenceCount 2.
C28_SerialisedOneInstance ==
    \A t \in Threads, u \in Threads :
        (/\ Running /\ BothHold(t, u)
         /\ threads[t].absent
         /\ ~threads[t].raced /\ ~threads[u].raced)
            => OneInstance(t, u)

\* Two calls that did not overlap returned handles for a key that was
\* absent when the first began: one factory call, referenceCount 2.
C28_Witness ==
    \E t \in Threads, u \in Threads :
        /\ Running /\ BothHold(t, u)
        /\ threads[t].absent /\ ~threads[u].absent
        /\ ~threads[t].raced /\ ~threads[u].raced
        /\ threads[t].invoked /\ ~threads[u].invoked
        /\ mMap[threads[t].key].referenceCount = 2

\* ------------------------------------------------------ per-key isolation
\* C31: an operation leaves the presence, value and referenceCount of every
\* entry unchanged whose key is neither the key it concerns nor, for an
\* assignment, the key the assigned-to handle had; and an entry is erased
\* only by a release through one of its own handles: the destructor of a
\* handle with its key, or a copy-assignment to a handle with its key.
C31_PerKeyIsolation ==
    [][\A k \in Keys :
           /\ (k # last'.key /\ k # last'.old) => mMap'[k] = mMap[k]
           /\ (mMap[k].present /\ ~mMap'[k].present) =>
                  \/ last'.op = "dtor" /\ last'.key = k
                  \/ last'.op = "copy-assign" /\ last'.old = k]_vars

\* The destructor of the last handle of key 1 has erased its entry while
\* the entry of key 2, with one handle, is as it was.
C31_Witness ==
    /\ Running
    /\ last.op = "dtor" /\ last.key = 1
    /\ ~mMap[1].present
    /\ mMap[2].present /\ mMap[2].referenceCount = 1
    /\ \E s \in Slots : handles[s].exists /\ KeyOf(handles[s]) = 2

\* ------------------------------------------------ checksum verification
\* getDefinition has put an entry into the map that was not there before.
ProducedEntry == \E k \in Keys : ~mMap[k].present /\ mMap'[k].present

\* C32 as stated: a call of getDefinition with a package whose stored crc32
\* differs from the crc32 computed over its content never produces a
\* definition entry.
C32_ChecksumAlwaysVerified ==
    [][last'.op = "getDefinition" /\ last'.corrupt => ~ProducedEntry]_vars

\* C32, amended: when the engine's feature flag check_crc32_after_loading
\* is set, a call of getDefinition with a package whose stored crc32
\* differs from the crc32 computed over its content never produces a
\* definition entry, and when its factory runs it yields no value.
C32_ChecksumVerifiedWhenEnabled ==
    [][last'.op = "getDefinition" /\ last'.corrupt /\ last'.crcChecked =>
           /\ ~ProducedEntry
           /\ last'.invoked => ~last'.hasValue]_vars

\* getDefinition ran its factory on a package with a wrong crc32 with the
\* feature flag set: no value, and no entry for the package's cache id.
C32_Witness ==
    /\ Running
    /\ last.op = "getDefinition" /\ last.corrupt /\ last.crcChecked
    /\ last.invoked /\ ~last.hasValue
    /\ last.id # 0 /\ ~mMap[last.id].present

\* ------------------------------------------- moved-from program handles
\* The ProgramHandle objects that have been moved from and whose key still
\* embeds a definition handle for content identifier d.
MovedFromHandlesOf(d) ==
    {p \in ProgramHandlesOf(d) :
         pHandles[p].mImpl = NULL /\ pHandles[p].mKey.definition.mImpl # NULL}

\* C33: a ProgramHandle that has been moved from keeps the definition
\* handle embedded in its key: as long as the object exists, the definition
\* entry is in the definition cache and its referenceCount covers every
\* holder of a handle for it: the clients' definition handles and
\* Specializations, the keys of the program entries and the keys of the
\* ProgramHandle objects, moved-from ones included.
\* It holds while the process runs, and fails where a moved-from
\* ProgramHandle whose key holds the last claim on d is assigned to itself:
\* the assignment of the embedded handle releases d, which evicts it, before
\* it acquires it.
C33_MovedFromPinsDefinition ==
    \A d \in Keys :
        MovedFromHandlesOf(d) # {} =>
            /\ mMap[d].present
            /\ mMap[d].referenceCount =
                   LiveCount(d) + Cardinality(SpecsOf(d))
                       + Cardinality(EntriesOf(d))
                       + Cardinality(ProgramHandlesOf(d))

\* ------------------------------------------------------- getParameters
\* The parameter that belongs at position i (from 1) of the list: the
\* uniform fields first, then the samplers, then the subpass.
ExpectedParameter(i) ==
    LET package == material.package IN
    IF i <= package.uniforms
    THEN [name |-> <<"uniform", i>>, isSampler |-> FALSE, isSubpass |-> FALSE]
    ELSE IF i <= package.uniforms + package.samplers
    THEN [name |-> <<"sampler", i - package.uniforms>>,
          isSampler |-> TRUE, isSubpass |-> FALSE]
    ELSE [name |-> <<"subpass", 1>>, isSampler |-> FALSE, isSubpass |-> TRUE]

\* C34: getParameters(out, count) returns min(count, getParameterCount()),
\* where getParameterCount() is the number of uniform fields plus the
\* number of samplers plus one for a valid subpass; it fills exactly that
\* many leading slots, with the uniform fields first, then the samplers,
\* then the subpass, and writes to no slot after them, so to none at or
\* beyond index count.
C34_ParametersTruncatedInOrder ==
    material.exists /\ material.call.made =>
        LET package == material.package
            call == material.call
            total == package.uniforms + package.samplers
                         + (IF package.subpass THEN 1 ELSE 0)
            n == IF call.count < total THEN call.count ELSE total
        IN
        /\ call.ret = n
        /\ \A i \in 1..ArraySize :
               IF i <= n
               THEN LET info == call.parameters[i] IN
                    [name |-> info.name, isSampler |-> info.isSampler,
                     isSubpass |-> info.isSubpass] = ExpectedParameter(i)
               ELSE call.parameters[i] = Unwritten

\* A material with two uniform fields, two samplers and a subpass was asked
\* for three parameters: two uniforms and the first sampler were written,
\* the fourth slot was not.
C34_Witness ==
    /\ material.exists /\ material.call.made
    /\ material.package.uniforms = 2 /\ material.package.samplers = 2
    /\ material.package.subpass
    /\ material.call.count = 3 /\ material.call.ret = 3
    /\ material.call.parameters[3].isSampler
    /\ material.call.parameters[4] = Unwritten

\* ------------------------------------------------- processBlendingMode
\* C35: after processBlendingMode, depthWrite is the package's explicit
\* value when the package sets depth write, and otherwise true exactly for
\* OPAQUE and MASKED; alphaToCoverage is the package's explicit value when
\* set, and otherwise true exactly for MASKED.
C35_BlendModeRasterState ==
    material.exists =>
        LET package == material.package IN
        /\ material.mRasterState.depthWrite =
               IF package.depthWriteSet THEN package.depthWrite
               ELSE package.blendingMode \in {"OPAQUE", "MASKED"}
        /\ material.mRasterState.alphaToCoverage =
               IF package.alphaToCoverageSet THEN package.alphaToCoverage
               ELSE package.blendingMode = "MASKED"

\* A TRANSPARENT material whose package sets depth write to true and does
\* not set alpha to coverage: depth write is on, alpha to coverage is off.
C35_Witness ==
    /\ material.exists
    /\ material.mBlendingMode = "TRANSPARENT"
    /\ material.package.depthWriteSet /\ material.package.depthWrite
    /\ ~material.package.alphaToCoverageSet
    /\ material.mRasterState.depthWrite
    /\ ~material.mRasterState.alphaToCoverage

\* ------------------------------------------------------- the stored hash
\* C36: every Handle object, live or moved-from, stores the hash of the key
\* it stores, whatever constructions, copies, moves and assignments made
\* it; so the lookups of at, acquire and release through a live handle
\* never miss an entry for a wrong hash.
C36_StoredHashConsistent ==
    \A s \in Slots :
        handles[s].exists =>
            /\ handles[s].mHash = Hash(handles[s].mKey)
            /\ handles[s].mImpl # NULL =>
                   (find(mMap, handles[s].mKey, handles[s].mHash)
                        <=> mMap[handles[s].mKey].present)

\* A handle for key 2 was move-assigned to a handle that had key 1: the
\* assigned-to handle and the moved-from one both store key 2 with its hash.
C36_Witness ==
    /\ Running /\ last.op = "move-assign" /\ last.key = 2
    /\ \E dst \in Slots, src \in Slots :
           /\ dst # src
           /\ handles[dst].exists /\ handles[dst].mImpl = IMPL
           /\ handles[src].exists /\ handles[src].mImpl = NULL
           /\ handles[dst].mKey = 2 /\ handles[src].mKey = 2
           /\ handles[dst].mHash = Hash(2) /\ handles[src].mHash = Hash(2)
           /\ mMap[1].present

\* ------------------------------------------------- hashing once per get
\* C37: a call of get evaluates the hash function of the key exactly once;
\* that hash serves the lookup, the insertion on a miss, and the returned
\* handle.
\* It fails on every miss whose factory yields a value: insert is handed
\* the key alone and hashes it a second time.
C37_SingleHashPerGet ==
    last.op = "get" => last.hashed = 1

====
